---- MODULE Spec2Model ----
(***************************************************************************)
(* Model of crawlerclub/httpcache (src/httpcache.go, current revision,    *)
(* lines 238-612): regex policy matching, policy loading, the expiry-aware *)
(* cache over a persisted store, the fetch orchestrator and the singleton  *)
(* life cycle.                                                             *)
(*                                                                         *)
(* Text is modelled as sequences of tokens (a URL, a policy line, a        *)
(* duration), time as whole seconds, a byte slice as a string.             *)
(***************************************************************************)
EXTENDS Integers, Sequences, FiniteSets, TLC

(***************************************************************************)
(* Bounds of the model.                                                    *)
(***************************************************************************)
MaxTicks == 2
MaxOps == 2
MaxClients == 1
MaxInstances == 2
MaxWrites == 1
MaxCloses == 2

(***************************************************************************)
(* Program constants.                                                      *)
(***************************************************************************)
\* 10 * time.Minute, in seconds (LoadPoliciesFromFile, defaultPolicy)
DefaultTTL == 600

\* the zero time.Time
ZeroTime == 0

\* nil []byte, nil error, nil *HTTPClient
NilBytes == "<nil>"
ErrNil == "<nil>"
NilClient == 0

(***************************************************************************)
(* Sequence helpers (package strings on token sequences).                  *)
(***************************************************************************)
Drop(s, n) == SubSeq(s, n + 1, Len(s))

Take(s, n) == SubSeq(s, 1, n)

\* strings.Index(s, tok): first position of tok, 0 when absent (Go: -1)
Index(s, tok) ==
    IF \E i \in 1..Len(s) : s[i] = tok
    THEN CHOOSE i \in 1..Len(s) : s[i] = tok /\ \A j \in 1..(i - 1) : s[j] # tok
    ELSE 0

\* strings.LastIndex(s, tok): last position of tok, 0 when absent (Go: -1)
LastIndex(s, tok) ==
    IF \E i \in 1..Len(s) : s[i] = tok
    THEN CHOOSE i \in 1..Len(s) : s[i] = tok /\ \A j \in (i + 1)..Len(s) : s[j] # tok
    ELSE 0

RECURSIVE TrimLeft(_)
TrimLeft(s) == IF s # <<>> /\ Head(s) = " " THEN TrimLeft(Tail(s)) ELSE s

RECURSIVE TrimRight(_)
TrimRight(s) ==
    IF s # <<>> /\ s[Len(s)] = " " THEN TrimRight(Take(s, Len(s) - 1)) ELSE s

\* strings.TrimSpace
TrimSpace(s) == TrimRight(TrimLeft(s))

(***************************************************************************)
(* package regexp on token patterns.  A pattern is a sequence of tokens:   *)
(* ".*" matches any run of URL tokens, an escaped literal matches the one  *)
(* URL token it spells, "(" alone is an unclosed group.                    *)
(***************************************************************************)
RegexLiteral ==
    [t \in {"\\.example\\.com", "\\.test\\.com", "\\/news\\/archive\\/",
            "/test", "="} |->
        CASE t = "\\.example\\.com" -> ".example.com"
          [] t = "\\.test\\.com" -> ".test.com"
          [] t = "\\/news\\/archive\\/" -> "/news/archive/"
          [] OTHER -> t]

\* regexp.Compile succeeds
CompileOK(pattern) ==
    \A i \in 1..Len(pattern) : pattern[i] = ".*" \/ pattern[i] \in DOMAIN RegexLiteral

RECURSIVE MatchHere(_, _)
MatchHere(pattern, s) ==
    IF pattern = <<>> THEN TRUE
    ELSE IF Head(pattern) = ".*"
         THEN \E k \in 0..Len(s) : MatchHere(Tail(pattern), Drop(s, k))
         ELSE /\ s # <<>>
              /\ Head(s) = RegexLiteral[Head(pattern)]
              /\ MatchHere(Tail(pattern), Tail(s))

\* (*Regexp).MatchString: unanchored match
MatchString(pattern, s) == \E i \in 0..Len(s) : MatchHere(pattern, Drop(s, i))

(***************************************************************************)
(* time.ParseDuration on token durations: [sign] (number unit)+ or "0".    *)
(***************************************************************************)
NumVal ==
    [t \in {"0", "1", "2", "5", "7", "30"} |->
        CASE t = "0" -> 0 [] t = "1" -> 1 [] t = "2" -> 2
          [] t = "5" -> 5 [] t = "7" -> 7 [] OTHER -> 30]

\* unitMap of package time, in seconds (sub-second units are not modelled)
UnitSeconds ==
    [t \in {"s", "m", "h"} |->
        CASE t = "s" -> 1 [] t = "m" -> 60 [] OTHER -> 3600]

RECURSIVE ParseParts(_)
ParseParts(s) ==
    IF s = <<>> THEN [ok |-> TRUE, val |-> 0]
    ELSE IF Len(s) < 2 \/ s[1] \notin DOMAIN NumVal \/ s[2] \notin DOMAIN UnitSeconds
         THEN [ok |-> FALSE, val |-> 0]
         ELSE LET rest == ParseParts(Drop(s, 2))
              IN  [ok |-> rest.ok,
                   val |-> NumVal[s[1]] * UnitSeconds[s[2]] + rest.val]

\* ParseDuration that reads the sign and drops it
ParseDuration_DropsSign(s) ==
    LET body == IF s # <<>> /\ Head(s) \in {"-", "+"} THEN Tail(s) ELSE s
        parts == ParseParts(body)
    IN  IF body = <<"0">> THEN [ok |-> TRUE, val |-> 0]
        ELSE IF body = <<>> \/ ~parts.ok THEN [ok |-> FALSE, val |-> 0]
        ELSE [ok |-> TRUE, val |-> parts.val]

\* time.ParseDuration
ParseDuration(s) ==
    LET neg == s # <<>> /\ Head(s) = "-"
        body == IF s # <<>> /\ Head(s) \in {"-", "+"} THEN Tail(s) ELSE s
        parts == ParseParts(body)
    IN  IF body = <<"0">> THEN [ok |-> TRUE, val |-> 0]
        ELSE IF body = <<>> \/ ~parts.ok THEN [ok |-> FALSE, val |-> 0]
        ELSE [ok |-> TRUE, val |-> IF neg THEN 0 - parts.val ELSE parts.val]

(***************************************************************************)
(* Policies.                                                               *)
(***************************************************************************)
\* type CachePolicy
CachePolicy(pattern, ttl) == [Pattern |-> pattern, TTL |-> ttl]

\* defaultPolicy of LoadPoliciesFromFile: regexp.MustCompile(".*"), 10 minutes
defaultPolicy == CachePolicy(<<".*">>, DefaultTTL)

\* the body of the scanner loop for one line: the policy appended (add), a
\* skipped line, or the error that aborts the load
ParsePolicyLine(text) ==
    LET line0 == TrimSpace(text)
        hash == Index(line0, "#")
        line == IF hash # 0 THEN TrimSpace(Take(line0, hash - 1)) ELSE line0
        idx == LastIndex(line, "=")
        pattern == TrimSpace(Take(line, idx - 1))
        duration == TrimSpace(Drop(line, idx))
        parsed == ParseDuration(duration)
    IN  IF line0 = <<>> \/ Head(line0) = "#"
        THEN [err |-> ErrNil, add |-> <<>>]
        ELSE IF idx = 0
        THEN [err |-> "invalid policy format", add |-> <<>>]
        ELSE IF ~CompileOK(pattern)
        THEN [err |-> "invalid regex pattern", add |-> <<>>]
        ELSE IF ~parsed.ok
        THEN [err |-> "invalid duration", add |-> <<>>]
        ELSE [err |-> ErrNil, add |-> <<CachePolicy(pattern, parsed.val)>>]

\* the scanner loop returning the policies parsed before the line in error
RECURSIVE ScanLines_KeepsParsed(_, _)
ScanLines_KeepsParsed(lines, policies) ==
    IF lines = <<>> THEN [err |-> ErrNil, policies |-> policies]
    ELSE LET r == ParsePolicyLine(Head(lines))
         IN  IF r.err # ErrNil THEN [err |-> r.err, policies |-> policies]
             ELSE ScanLines_KeepsParsed(Tail(lines), policies \o r.add)

\* the scanner loop of LoadPoliciesFromFile over the lines still to read
RECURSIVE ScanLines(_, _)
ScanLines(lines, policies) ==
    IF lines = <<>> THEN [err |-> ErrNil, policies |-> policies]
    ELSE LET r == ParsePolicyLine(Head(lines))
         IN  IF r.err # ErrNil THEN [err |-> r.err, policies |-> <<>>]
             ELSE ScanLines(Tail(lines), policies \o r.add)

\* LoadPoliciesFromFile that does not append the default policy to the
\* policies read from a file
LoadPoliciesFromFile_NoDefault(filename, fs) ==
    IF filename = "" THEN [err |-> ErrNil, policies |-> <<defaultPolicy>>]
    ELSE IF ~fs.exists THEN [err |-> ErrNil, policies |-> <<defaultPolicy>>]
    ELSE ScanLines(fs.lines, <<>>)

\* LoadPoliciesFromFile that puts the default policy first
LoadPoliciesFromFile_DefaultFirst(filename, fs) ==
    IF filename = "" THEN [err |-> ErrNil, policies |-> <<defaultPolicy>>]
    ELSE IF ~fs.exists THEN [err |-> ErrNil, policies |-> <<defaultPolicy>>]
    ELSE LET r == ScanLines(fs.lines, <<>>)
         IN  IF r.err # ErrNil THEN r
             ELSE [err |-> ErrNil, policies |-> <<defaultPolicy>> \o r.policies]

\* LoadPoliciesFromFile(filename) reading the file system fs
\* (fs.exists: the file is there; fs.lines: its lines)
LoadPoliciesFromFile(filename, fs) ==
    IF filename = "" THEN [err |-> ErrNil, policies |-> <<defaultPolicy>>]
    ELSE IF ~fs.exists THEN [err |-> ErrNil, policies |-> <<defaultPolicy>>]
    ELSE LET r == ScanLines(fs.lines, <<>>)
         IN  IF r.err # ErrNil THEN r
             ELSE [err |-> ErrNil, policies |-> Append(r.policies, defaultPolicy)]

RECURSIVE GetTTL(_, _)

\* GetTTL that lets the last matching policy win
GetTTL_LastMatch(policies, url) ==
    LET matching == {i \in 1..Len(policies) : MatchString(policies[i].Pattern, url)}
    IN  IF matching = {} THEN 0
        ELSE policies[CHOOSE i \in matching : \A j \in matching : j <= i].TTL

\* (*Cache).GetTTL
GetTTL(policies, url) ==
    IF policies = <<>> THEN 0
    ELSE IF MatchString(Head(policies).Pattern, url) THEN Head(policies).TTL
    ELSE GetTTL(Tail(policies), url)

\* hashKey that gives every URL the same key
hashKey_Constant(url) == <<"sha256", <<>>>>

\* hashKey: hex SHA-256 of the URL, a fixed-length key that is different for
\* different URLs of the model
hashKey(url) == <<"sha256", url>>

(***************************************************************************)
(* The persisted store (github.com/liuzl/store.LevelStore) and the entry   *)
(* encoding.  kv is the content of the store's directory; h is a handle    *)
(* [dir, open, faults]; every call on a closed handle fails, and so does a  *)
(* call of package store that is in the handle's faults.                   *)
(***************************************************************************)
NoValue == [absent |-> TRUE]

\* the calls of package store that can fail: Get, BytesToObject, Put,
\* ObjectToBytes, Delete
Faults == {"get", "decode", "put", "encode", "delete"}

\* (*LevelStore).Get
StoreGet(h, kv, key) ==
    IF ~h.open THEN [err |-> "closed", value |-> NoValue]
    ELSE IF "get" \in h.faults THEN [err |-> "fault", value |-> NoValue]
    ELSE [err |-> ErrNil, value |-> kv[key]]

\* (*LevelStore).Put
StorePut(h, kv, key, value) ==
    IF ~h.open THEN [err |-> "closed", kv |-> kv]
    ELSE IF "put" \in h.faults THEN [err |-> "fault", kv |-> kv]
    ELSE [err |-> ErrNil, kv |-> [kv EXCEPT ![key] = value]]

\* (*LevelStore).Delete
StoreDelete(h, kv, key) ==
    IF ~h.open THEN [err |-> "closed", kv |-> kv]
    ELSE IF "delete" \in h.faults THEN [err |-> "fault", kv |-> kv]
    ELSE [err |-> ErrNil, kv |-> [kv EXCEPT ![key] = NoValue]]

\* type CacheEntry
CacheEntry(data, url, finalURL, crawledAt, expiresAt) ==
    [Data |-> data, URL |-> url, FinalURL |-> finalURL,
     CrawledAt |-> crawledAt, ExpiresAt |-> expiresAt]

\* store.ObjectToBytes(entry): the fields under their names
ObjectToBytes(entry) ==
    [data |-> entry.Data, url |-> entry.URL, final_url |-> entry.FinalURL,
     crawled_at |-> entry.CrawledAt, expires_at |-> entry.ExpiresAt]

\* store.BytesToObject(value, &entry): a field the value lacks keeps its zero
BytesToObject(value) ==
    CacheEntry(value.data, value.url,
               IF "final_url" \in DOMAIN value THEN value.final_url ELSE <<>>,
               IF "crawled_at" \in DOMAIN value THEN value.crawled_at ELSE ZeroTime,
               value.expires_at)

\* CacheGet that judges every entry by the ExpiresAt stored in it
CacheGet_ByExpiresAt(h, policies, kv, key, t) ==
    LET got == StoreGet(h, kv, key)
        entry == BytesToObject(got.value)
        isExpired == t > entry.ExpiresAt
    IN  IF got.err # ErrNil \/ got.value = NoValue \/ "decode" \in h.faults
        THEN [data |-> NilBytes, finalURL |-> <<>>, found |-> FALSE,
              kv |-> kv, calls |-> <<"Store.Get">>]
        ELSE IF isExpired
        THEN [data |-> NilBytes, finalURL |-> <<>>, found |-> FALSE,
              kv |-> StoreDelete(h, kv, key).kv,
              calls |-> <<"Store.Get", "Store.Delete">>]
        ELSE [data |-> entry.Data, finalURL |-> entry.FinalURL, found |-> TRUE,
              kv |-> kv, calls |-> <<"Store.Get">>]

\* CacheGet that serves the entry although store.BytesToObject failed
CacheGet_IgnoresDecodeErr(h, policies, kv, key, t) ==
    LET got == StoreGet(h, kv, key)
        entry == BytesToObject(got.value)
        isExpired == IF entry.CrawledAt # ZeroTime
                     THEN t - entry.CrawledAt > GetTTL(policies, entry.URL)
                     ELSE t > entry.ExpiresAt
    IN  IF got.err # ErrNil \/ got.value = NoValue
        THEN [data |-> NilBytes, finalURL |-> <<>>, found |-> FALSE,
              kv |-> kv, calls |-> <<"Store.Get">>]
        ELSE IF isExpired
        THEN [data |-> NilBytes, finalURL |-> <<>>, found |-> FALSE,
              kv |-> StoreDelete(h, kv, key).kv,
              calls |-> <<"Store.Get", "Store.Delete">>]
        ELSE [data |-> entry.Data, finalURL |-> entry.FinalURL, found |-> TRUE,
              kv |-> kv, calls |-> <<"Store.Get">>]

\* CacheGet with the expiry test off by one: an entry exactly TTL old is expired
CacheGet_ExpiredAtTTL(h, policies, kv, key, t) ==
    LET got == StoreGet(h, kv, key)
        entry == BytesToObject(got.value)
        isExpired == IF entry.CrawledAt # ZeroTime
                     THEN t - entry.CrawledAt >= GetTTL(policies, entry.URL)
                     ELSE t > entry.ExpiresAt
    IN  IF got.err # ErrNil \/ got.value = NoValue \/ "decode" \in h.faults
        THEN [data |-> NilBytes, finalURL |-> <<>>, found |-> FALSE,
              kv |-> kv, calls |-> <<"Store.Get">>]
        ELSE IF isExpired
        THEN [data |-> NilBytes, finalURL |-> <<>>, found |-> FALSE,
              kv |-> StoreDelete(h, kv, key).kv,
              calls |-> <<"Store.Get", "Store.Delete">>]
        ELSE [data |-> entry.Data, finalURL |-> entry.FinalURL, found |-> TRUE,
              kv |-> kv, calls |-> <<"Store.Get">>]

\* CacheGet without the expiry test: whatever is stored is served
CacheGet_NoExpiry(h, policies, kv, key, t) ==
    LET got == StoreGet(h, kv, key)
        entry == BytesToObject(got.value)
    IN  IF got.err # ErrNil \/ got.value = NoValue \/ "decode" \in h.faults
        THEN [data |-> NilBytes, finalURL |-> <<>>, found |-> FALSE,
              kv |-> kv, calls |-> <<"Store.Get">>]
        ELSE [data |-> entry.Data, finalURL |-> entry.FinalURL, found |-> TRUE,
              kv |-> kv, calls |-> <<"Store.Get">>]

\* CacheGet that serves an expired entry when Store.Delete fails
CacheGet_StaleOnDeleteErr(h, policies, kv, key, t) ==
    LET got == StoreGet(h, kv, key)
        entry == BytesToObject(got.value)
        isExpired == IF entry.CrawledAt # ZeroTime
                     THEN t - entry.CrawledAt > GetTTL(policies, entry.URL)
                     ELSE t > entry.ExpiresAt
        del == StoreDelete(h, kv, key)
    IN  IF got.err # ErrNil \/ got.value = NoValue \/ "decode" \in h.faults
        THEN [data |-> NilBytes, finalURL |-> <<>>, found |-> FALSE,
              kv |-> kv, calls |-> <<"Store.Get">>]
        ELSE IF isExpired /\ del.err = ErrNil
        THEN [data |-> NilBytes, finalURL |-> <<>>, found |-> FALSE,
              kv |-> del.kv, calls |-> <<"Store.Get", "Store.Delete">>]
        ELSE [data |-> entry.Data, finalURL |-> entry.FinalURL, found |-> TRUE,
              kv |-> kv,
              calls |-> IF isExpired THEN <<"Store.Get", "Store.Delete">>
                        ELSE <<"Store.Get">>]

\* CacheGet that judges an entry without CrawledAt by the policy TTL as well
CacheGet_LegacyByTTL(h, policies, kv, key, t) ==
    LET got == StoreGet(h, kv, key)
        entry == BytesToObject(got.value)
        isExpired == t - entry.CrawledAt > GetTTL(policies, entry.URL)
    IN  IF got.err # ErrNil \/ got.value = NoValue \/ "decode" \in h.faults
        THEN [data |-> NilBytes, finalURL |-> <<>>, found |-> FALSE,
              kv |-> kv, calls |-> <<"Store.Get">>]
        ELSE IF isExpired
        THEN [data |-> NilBytes, finalURL |-> <<>>, found |-> FALSE,
              kv |-> StoreDelete(h, kv, key).kv,
              calls |-> <<"Store.Get", "Store.Delete">>]
        ELSE [data |-> entry.Data, finalURL |-> entry.FinalURL, found |-> TRUE,
              kv |-> kv, calls |-> <<"Store.Get">>]

\* (*Cache).Get at time t: the result, the store content left behind and the
\* store calls made
CacheGet(h, policies, kv, key, t) ==
    LET got == StoreGet(h, kv, key)
        entry == BytesToObject(got.value)
        isExpired == IF entry.CrawledAt # ZeroTime
                     THEN t - entry.CrawledAt > GetTTL(policies, entry.URL)
                     ELSE t > entry.ExpiresAt
    IN  IF got.err # ErrNil \/ got.value = NoValue \/ "decode" \in h.faults
        THEN [data |-> NilBytes, finalURL |-> <<>>, found |-> FALSE,
              kv |-> kv, calls |-> <<"Store.Get">>]
        ELSE IF isExpired
        THEN [data |-> NilBytes, finalURL |-> <<>>, found |-> FALSE,
              kv |-> StoreDelete(h, kv, key).kv,
              calls |-> <<"Store.Get", "Store.Delete">>]
        ELSE [data |-> entry.Data, finalURL |-> entry.FinalURL, found |-> TRUE,
              kv |-> kv, calls |-> <<"Store.Get">>]

\* Cache.Set that leaves an entry alone that is stored already
CacheSet_IfAbsent(h, kv, key, data, url, finalURL, ttl, t) ==
    LET entry == CacheEntry(data, url, finalURL, t, t + ttl)
    IN  IF "encode" \in h.faults \/ kv[key] # NoValue
        THEN [kv |-> kv, calls |-> <<>>]
        ELSE [kv |-> StorePut(h, kv, key, ObjectToBytes(entry)).kv,
              calls |-> <<"Store.Put">>]

\* Cache.Set as the older revision had it: no CrawledAt
CacheSet_NoCrawledAt(h, kv, key, data, url, finalURL, ttl, t) ==
    LET entry == CacheEntry(data, url, finalURL, ZeroTime, t + ttl)
    IN  IF "encode" \in h.faults THEN [kv |-> kv, calls |-> <<>>]
        ELSE [kv |-> StorePut(h, kv, key, ObjectToBytes(entry)).kv,
              calls |-> <<"Store.Put">>]

\* (*Cache).Set at time t
CacheSet(h, kv, key, data, url, finalURL, ttl, t) ==
    LET entry == CacheEntry(data, url, finalURL, t, t + ttl)
    IN  IF "encode" \in h.faults THEN [kv |-> kv, calls |-> <<>>]
        ELSE [kv |-> StorePut(h, kv, key, ObjectToBytes(entry)).kv,
              calls |-> <<"Store.Put">>]

\* CacheDelete that reports the call and leaves the entry
CacheDelete_Keeps(h, kv, key) ==
    [err |-> ErrNil, kv |-> kv, calls |-> <<"Store.Delete">>]

\* (*Cache).Delete
CacheDelete(h, kv, key) ==
    LET r == StoreDelete(h, kv, key)
    IN  [err |-> r.err, kv |-> r.kv, calls |-> <<"Store.Delete">>]

(***************************************************************************)
(* The fetch orchestrator.  A validator is [isNil, accepts]: nil, or the   *)
(* set of bodies the predicate accepts.  net is what the transport does    *)
(* for this call: [kind, err, body, finalURL, lat] with kind "ok",         *)
(* "do_err" (client.Do fails) or "read_err" (io.ReadAll fails); lat is the *)
(* time the round trip takes.                                              *)
(***************************************************************************)
\* the trace of store and transport calls of one operation
Has(calls, x) == \E i \in 1..Len(calls) : calls[i] = x

Count(calls, x) == Cardinality({i \in 1..Len(calls) : calls[i] = x})

\* validator(value) of a non-nil ContentValidator
Validate(validator, value) == value \in validator.accepts

\* http.NewRequest accepts the URL (every URL of the model is well formed)
NewRequestOK(url) == url # <<>>

\* DoRequest that drops the error of io.ReadAll
DoRequest_IgnoresReadErr(url, net) ==
    IF ~NewRequestOK(url)
    THEN [err |-> "NewRequest", body |-> NilBytes, finalURL |-> <<>>, calls |-> <<>>]
    ELSE IF net.kind = "do_err"
    THEN [err |-> net.err, body |-> NilBytes, finalURL |-> <<>>, calls |-> <<"Do">>]
    ELSE [err |-> ErrNil, body |-> net.body, finalURL |-> net.finalURL,
          calls |-> <<"Do">>]

\* the request of a fetch: http.NewRequest, hc.client.Do, io.ReadAll
DoRequest(url, net) ==
    IF ~NewRequestOK(url)
    THEN [err |-> "NewRequest", body |-> NilBytes, finalURL |-> <<>>, calls |-> <<>>]
    ELSE IF net.kind = "do_err"
    THEN [err |-> net.err, body |-> NilBytes, finalURL |-> <<>>, calls |-> <<"Do">>]
    ELSE IF net.kind = "read_err"
    THEN [err |-> net.err, body |-> NilBytes, finalURL |-> net.finalURL,
          calls |-> <<"Do">>]
    ELSE [err |-> ErrNil, body |-> net.body, finalURL |-> net.finalURL,
          calls |-> <<"Do">>]

\* ShouldCache that never asks the validator
ShouldCache_Always(validator, body) == TRUE

\* shouldCache := true; if validator != nil { shouldCache = validator(body) }
ShouldCache(validator, body) ==
    IF validator.isNil THEN TRUE ELSE Validate(validator, body)

\* GetWithValidator that looks into the cache whatever the TTL is
UseCache_Always(ttl) == TRUE

\* if ttl > 0 { ... hc.cache.Get(key) ... }
UseCache(ttl) == ttl > 0

\* (*HTTPClient).GetWithValidator called at time t on store content kv; the
\* round trip takes net.lat, so Cache.Set reads the clock at t + net.lat
GetWithValidator(c, url, validator, net, kv, t) ==
    LET key == hashKey(url)
        ttl == GetTTL(c.Policies, url)
        look == CacheGet(c.Store, c.Policies, kv, key, t)
        hit == UseCache(ttl) /\ look.found
                 /\ (validator.isNil \/ Validate(validator, look.data))
        invalid == UseCache(ttl) /\ look.found /\ ~hit
        del == CacheDelete(c.Store, look.kv, key)
        kv1 == IF UseCache(ttl) THEN (IF invalid THEN del.kv ELSE look.kv) ELSE kv
        calls1 == IF UseCache(ttl)
                  THEN (IF invalid THEN look.calls \o del.calls ELSE look.calls)
                  ELSE <<>>
        resp == DoRequest(url, net)
        t2 == IF Has(resp.calls, "Do") THEN t + net.lat ELSE t
        set == CacheSet(c.Store, kv1, key, resp.body, url, resp.finalURL, ttl, t2)
    IN  IF hit
        THEN [data |-> look.data, finalURL |-> look.finalURL, err |-> ErrNil,
              kv |-> look.kv, calls |-> look.calls, t |-> t]
        ELSE IF resp.err # ErrNil
        THEN [data |-> NilBytes, finalURL |-> resp.finalURL, err |-> resp.err,
              kv |-> kv1, calls |-> calls1 \o resp.calls, t |-> t2]
        ELSE IF ShouldCache(validator, resp.body) /\ ttl > 0
        THEN [data |-> resp.body, finalURL |-> resp.finalURL, err |-> ErrNil,
              kv |-> set.kv, calls |-> calls1 \o resp.calls \o set.calls, t |-> t2]
        ELSE [data |-> resp.body, finalURL |-> resp.finalURL, err |-> ErrNil,
              kv |-> kv1, calls |-> calls1 \o resp.calls, t |-> t2]

\* (*HTTPClient).Get: GetWithValidator(url, nil) without the final URL
Get(c, url, net, kv, t) ==
    LET r == GetWithValidator(c, url, [isNil |-> TRUE, accepts |-> {}], net, kv, t)
    IN  [r EXCEPT !.finalURL = <<>>]

\* (*HTTPClient).GetWithFinalURL
GetWithFinalURL(c, url, net, kv, t) ==
    GetWithValidator(c, url, [isNil |-> TRUE, accepts |-> {}], net, kv, t)

\* (*HTTPClient).Fetch
Fetch(c, url, validator, net, kv, t) ==
    LET resp == DoRequest(url, net)
        ttl == GetTTL(c.Policies, url)
        t2 == IF Has(resp.calls, "Do") THEN t + net.lat ELSE t
        set == CacheSet(c.Store, kv, hashKey(url), resp.body, url, <<>>, ttl, t2)
    IN  IF resp.err # ErrNil
        THEN [data |-> NilBytes, finalURL |-> <<>>, err |-> resp.err,
              kv |-> kv, calls |-> resp.calls, t |-> t2]
        ELSE IF ttl > 0 /\ ShouldCache(validator, resp.body)
        THEN [data |-> resp.body, finalURL |-> <<>>, err |-> ErrNil,
              kv |-> set.kv, calls |-> resp.calls \o set.calls, t |-> t2]
        ELSE [data |-> resp.body, finalURL |-> <<>>, err |-> ErrNil,
              kv |-> kv, calls |-> resp.calls, t |-> t2]

\* (*HTTPClient).FetchWithFinalURL
FetchWithFinalURL(c, url, net, kv, t) ==
    LET resp == DoRequest(url, net)
        ttl == GetTTL(c.Policies, url)
        t2 == IF Has(resp.calls, "Do") THEN t + net.lat ELSE t
        set == CacheSet(c.Store, kv, hashKey(url), resp.body, url, resp.finalURL,
                        ttl, t2)
    IN  IF resp.err # ErrNil
        THEN [data |-> NilBytes, finalURL |-> resp.finalURL, err |-> resp.err,
              kv |-> kv, calls |-> resp.calls, t |-> t2]
        ELSE IF ttl > 0
        THEN [data |-> resp.body, finalURL |-> resp.finalURL, err |-> ErrNil,
              kv |-> set.kv, calls |-> resp.calls \o set.calls, t |-> t2]
        ELSE [data |-> resp.body, finalURL |-> resp.finalURL, err |-> ErrNil,
              kv |-> kv, calls |-> resp.calls, t |-> t2]

\* DeleteURL that deletes nothing
DeleteURL_Keeps(c, url, kv) ==
    [data |-> NilBytes, finalURL |-> <<>>, err |-> ErrNil, kv |-> kv,
     calls |-> <<"Store.Delete">>]

\* (*HTTPClient).DeleteURL
DeleteURL(c, url, kv) ==
    LET r == CacheDelete(c.Store, kv, hashKey(url))
    IN  [data |-> NilBytes, finalURL |-> <<>>, err |-> r.err,
         kv |-> r.kv, calls |-> r.calls]

(***************************************************************************)
(* Inputs of the model.                                                    *)
(***************************************************************************)
\* the URLs of TestCachePolicy
UrlExample == <<"http://api", ".example.com", "/test">>
UrlTest == <<"http://api", ".test.com", "/test">>
UrlOther == <<"http://other.com", "/test">>
URLs == {UrlExample, UrlTest, UrlOther}

\* the URLs the operations are called with
OpURLs == {UrlTest, UrlOther}

\* where a redirected request ends
RedirectURL == <<"http://final.com", "/get">>

NilValidator == [isNil |-> TRUE, accepts |-> {}]
Validators == {NilValidator, [isNil |-> FALSE, accepts |-> {"a"}]}

Latencies == {0, 1}
Deltas == {1}

DoErr == [kind |-> "do_err", err |-> "dial tcp: no such host", body |-> NilBytes,
          finalURL |-> <<>>, lat |-> 0]

ReadErr(url) == [kind |-> "read_err", err |-> "unexpected EOF", body |-> NilBytes,
                 finalURL |-> url, lat |-> 0]

\* what the transport can do with a request for url
NetOutcomes(url) ==
    [kind : {"ok"}, err : {ErrNil}, body : {"a"},
     finalURL : {url, RedirectURL}, lat : {0}]
    \cup [kind : {"ok"}, err : {ErrNil}, body : {"b"},
          finalURL : {RedirectURL}, lat : {0}]
    \cup [kind : {"ok"}, err : {ErrNil}, body : {"b"},
          finalURL : {url}, lat : Latencies \ {0}]
    \cup {DoErr, ReadErr(url)}

\* the flags -cache_dir and -policies_file (TestMain sets both)
CacheDirFlag == ".httpcache"
PoliciesFileFlags == {"", ".httpcache/policies.txt"}

\* store.NewLevelStore(cacheDir + "/data") opens this directory
DataDir(cacheDir) == <<cacheDir, "/data">>
CacheDirs == {CacheDirFlag, "tenant"}
Dirs == {DataDir(d) : d \in CacheDirs}

Keys == {hashKey(u) : u \in URLs}

\* contents of the policies file
NoFile == [exists |-> FALSE, lines |-> <<>>]

\* TestCachePolicy
TestPolicyFile ==
    [exists |-> TRUE,
     lines |-> << <<>>,
                  <<"#", " ", "Test", " ", "policy", " ", "file">>,
                  <<".*", "\\.example\\.com", "=", "5", "m">>,
                  <<".*", "\\.test\\.com", "=", "1", "s">> >>]

\* TestCacheExpiration
ExpirationFile == [exists |-> TRUE, lines |-> << <<".*", "=", "1", "s">> >>]

\* a line with blanks, an inline comment and a zero duration
ZeroFile ==
    [exists |-> TRUE,
     lines |-> << <<" ", ".*", "\\.test\\.com", " ", "=", " ", "0", "s", " ", "#", "off">> >>]

\* a negative duration, which time.ParseDuration accepts
NegativeFile ==
    [exists |-> TRUE, lines |-> << <<".*", "\\.test\\.com", "=", "-", "1", "s">> >>]

\* a good line, then a line without "="
BadFile ==
    [exists |-> TRUE,
     lines |-> << <<".*", "=", "1", "s">>, <<".*", "\\.test\\.com">> >>]

\* a good line, then a pattern that regexp.Compile rejects
BadPatternFile ==
    [exists |-> TRUE,
     lines |-> << <<".*", "\\.test\\.com", "=", "1", "s">>, <<"(", "=", "1", "s">> >>]

\* a good line, then a duration without a unit
BadDurationFile ==
    [exists |-> TRUE,
     lines |-> << <<".*", "\\.test\\.com", "=", "1", "s">>, <<".*", "=", "5">> >>]

\* the archive line of the example policies.txt
DayFile ==
    [exists |-> TRUE,
     lines |-> << <<".*", "\\/news\\/archive\\/", ".*", "=", "7", "d">> >>]

\* a compound duration
CompoundFile ==
    [exists |-> TRUE,
     lines |-> << <<".*", "\\.test\\.com", "=", "1", "h", "30", "m">>,
                  <<".*", "=", "2", "h">> >>]

LoadFiles ==
    {NoFile, TestPolicyFile, ZeroFile, NegativeFile, BadFile, BadPatternFile,
     BadDurationFile, DayFile, CompoundFile}

FileContents == {NoFile, TestPolicyFile, ExpirationFile, ZeroFile, BadFile}

PoliciesFileName == ".httpcache/policies.txt"

\* policy lists handed to NewClient: a list without a catch-all, and what
\* LoadPoliciesFromFile returns for three of the files above
NoCatchAll == <<CachePolicy(<<".*", "\\.test\\.com">>, 2)>>

PolicyArgs ==
    { NoCatchAll }
    \cup {LoadPoliciesFromFile(PoliciesFileName, f).policies :
            f \in {TestPolicyFile, ZeroFile, NegativeFile}}

\* the store is persistent: an entry that an earlier run of the program wrote
\* at time 1 under the default policy
PriorValue ==
    ObjectToBytes(CacheEntry("a", UrlOther, RedirectURL, 1, 1 + DefaultTTL))

\* an entry that an earlier run wrote at time 1 under the policy .*=1s
ShortLivedValue ==
    ObjectToBytes(CacheEntry("b", UrlTest, UrlTest, 1, 2))

\* what Cache.Set of the older revision stored: data, url and expires_at only
LegacyObjectToBytes(data, url, expiresAt) ==
    [data |-> data, url |-> url, expires_at |-> expiresAt]

\* an entry that the older revision wrote at time 1 with a TTL of 1s
LegacyValue == LegacyObjectToBytes("a", UrlOther, 2)

EmptyStore == [k \in Keys |-> NoValue]

(***************************************************************************)
(* State.                                                                  *)
(***************************************************************************)
VARIABLES
    now,          \* time.Now(), seconds
    policiesFile, \* flag -policies_file
    fs,           \* content of the policies file
    disk,         \* disk[dir][key]: the value stored under key in directory dir
    clients,      \* the HTTPClient objects built so far: [Store, Policies, singleton]
    instance,     \* var instance *HTTPClient: index into clients, NilClient for nil
    once,         \* var once sync.Once: [done, m], m the goroutine holding its mutex
    exited,       \* the process ended (log.Fatal, log.Fatalf, runtime throw)
    pc,           \* pc[g]: where goroutine g is in GetClient / Close
    local,        \* local[g]: locals of g's call: [policies, target]
    held,         \* held[g]: what GetClient returned to goroutine g last
    last,         \* history: the call that just returned and what it returned
    prev,         \* history: the GetClient / NewClient / Close that returned last
    hist,         \* history: hist[dir][key], the last call that touched the key
    initRuns,     \* history: how many times the function given to once.Do ran
    budget        \* steps still allowed: [ticks, ops, writes, closes, clients]

vars == <<now, policiesFile, fs, disk, clients, instance, once, exited, pc, local,
          held, last, prev, hist, initRuns, budget>>

Goroutines == {1, 2}

\* no fetch of this run wrote the entry
NoReport == <<"?">>

NoHist == [kind |-> "none", by |-> NilClient, data |-> NilBytes, reported |-> NoReport]

NoLast ==
    [op |-> "none", client |-> NilClient, url |-> <<>>, validator |-> NilValidator,
     net |-> DoErr, data |-> NilBytes, finalURL |-> <<>>, err |-> ErrNil,
     calls |-> <<>>, ttl |-> 0, t0 |-> 0, before |-> NoValue, hbefore |-> NoHist,
     ran |-> FALSE, prev |-> [op |-> "none", client |-> NilClient]]

NoLocal == [policies |-> <<>>, target |-> NilClient, ran |-> FALSE]

InitCommon ==
    /\ now = 1
    /\ fs = NoFile
    /\ clients = <<>>
    /\ instance = NilClient
    /\ once = [done |-> FALSE, m |-> 0]
    /\ exited = FALSE
    /\ pc = [g \in Goroutines |-> "idle"]
    /\ local = [g \in Goroutines |-> NoLocal]
    /\ held = [g \in Goroutines |-> NilClient]
    /\ last = NoLast
    /\ prev = [op |-> "none", client |-> NilClient]
    /\ hist = [d \in Dirs |-> [k \in Keys |-> NoHist]]
    /\ initRuns = 0

\* nothing is in the middle of GetClient or Close
Quiet == \A g \in Goroutines : pc[g] = "idle"

(***************************************************************************)
(* Cache operations of a client, each one call from start to return.       *)
(***************************************************************************)
IsGet(op) == op \in {"Get", "GetWithFinalURL", "GetWithValidator"}

\* the clients whose store handle is open
OpenClients == {i \in 1..Len(clients) : clients[i].Store.open}

\* the stored value v holds an entry that client c's Cache.Get serves at time t
Fresh(c, v, t) ==
    /\ v # NoValue
    /\ IF BytesToObject(v).CrawledAt # ZeroTime
       THEN t - BytesToObject(v).CrawledAt <= GetTTL(clients[c].Policies, BytesToObject(v).URL)
       ELSE t <= BytesToObject(v).ExpiresAt

\* history: what the call leaves as the last event on its key:
\* "stored" (a get fetched data and stored it), "rejected" (client by's get
\* fetched bytes that its validator rejected), "deleted" (DeleteURL returned;
\* data: what the entry held if it was still fresh), "other"; a get answered
\* from the cache is no event; reported is the final URL that the transport
\* reported on the last fetch of this run whose result was written to the key
HistAfter(op, c, validator, net, r, old, before, t) ==
    LET reported == IF Has(r.calls, "Store.Put") THEN net.finalURL ELSE old.reported
    IN  IF IsGet(op) /\ ~Has(r.calls, "Do") THEN old
        ELSE IF IsGet(op) /\ r.err = ErrNil /\ Has(r.calls, "Store.Put")
        THEN [kind |-> "stored", by |-> NilClient, data |-> r.data,
              reported |-> reported]
        ELSE IF IsGet(op) /\ net.kind = "ok" /\ ~validator.isNil
                         /\ ~Validate(validator, net.body)
        THEN [kind |-> "rejected", by |-> c, data |-> NilBytes, reported |-> reported]
        ELSE IF op = "DeleteURL"
        THEN [kind |-> "deleted", by |-> NilClient,
              data |-> IF Fresh(c, before, t) THEN before.data ELSE NilBytes,
              reported |-> reported]
        ELSE [kind |-> "other", by |-> NilClient, data |-> NilBytes,
              reported |-> reported]

\* the state after client c's call op(url, validator) returned result
Apply(op, c, url, validator, net, result) ==
    /\ ~exited /\ Quiet
    /\ budget.ops > 0
    /\ \E r \in {result} :
        LET dir == clients[c].Store.dir
            key == hashKey(url)
        IN
            /\ r.t - now <= budget.ticks
            /\ ~Has(r.calls, "Do") => net = DoErr
            /\ disk' = [disk EXCEPT ![dir] = r.kv]
            /\ now' = r.t
            /\ last' = [NoLast EXCEPT
                          !.op = op, !.client = c, !.url = url, !.validator = validator,
                          !.net = net, !.data = r.data, !.finalURL = r.finalURL,
                          !.err = r.err, !.calls = r.calls,
                          !.ttl = GetTTL(clients[c].Policies, url), !.t0 = now,
                          !.before = disk[dir][key], !.hbefore = hist[dir][key]]
            /\ hist' = [hist EXCEPT ![dir][key] =
                            HistAfter(op, c, validator, net, r, hist[dir][key],
                                      disk[dir][key], now)]
            /\ budget' = [budget EXCEPT !.ops = @ - 1, !.ticks = @ - (r.t - now)]
            /\ UNCHANGED <<policiesFile, fs, clients, instance, once, exited, pc,
                           local, held, prev, initRuns>>

CallGet(c, url) ==
    \E net \in NetOutcomes(url) :
        Apply("Get", c, url, NilValidator, net,
              Get(clients[c], url, net, disk[clients[c].Store.dir], now))

CallGetWithFinalURL(c, url) ==
    \E net \in NetOutcomes(url) :
        Apply("GetWithFinalURL", c, url, NilValidator, net,
              GetWithFinalURL(clients[c], url, net, disk[clients[c].Store.dir], now))

CallGetWithValidator(c, url, validator) ==
    \E net \in NetOutcomes(url) :
        Apply("GetWithValidator", c, url, validator, net,
              GetWithValidator(clients[c], url, validator, net,
                               disk[clients[c].Store.dir], now))

CallFetch(c, url, validator) ==
    \E net \in NetOutcomes(url) :
        Apply("Fetch", c, url, validator, net,
              Fetch(clients[c], url, validator, net, disk[clients[c].Store.dir], now))

CallFetchWithFinalURL(c, url) ==
    \E net \in NetOutcomes(url) :
        Apply("FetchWithFinalURL", c, url, NilValidator, net,
              FetchWithFinalURL(clients[c], url, net, disk[clients[c].Store.dir], now))

CallDeleteURL(c, url) ==
    LET r == DeleteURL(clients[c], url, disk[clients[c].Store.dir])
    IN  Apply("DeleteURL", c, url, NilValidator, DoErr,
              [data |-> r.data, finalURL |-> r.finalURL, err |-> r.err,
               kv |-> r.kv, calls |-> r.calls, t |-> now])

\* time passes between calls
Tick(d) ==
    /\ ~exited
    /\ budget.ticks > 0
    /\ now' = now + d
    /\ last' = NoLast
    /\ budget' = [budget EXCEPT !.ticks = @ - 1]
    /\ UNCHANGED <<policiesFile, fs, disk, clients, instance, once, exited, pc,
                   local, held, prev, hist, initRuns>>

\* the policies file is written (os.WriteFile in the tests) or removed
WritePoliciesFile(content) ==
    /\ ~exited
    /\ budget.writes > 0
    /\ Quiet
    /\ policiesFile # ""
    /\ content # fs
    /\ fs' = content
    /\ last' = NoLast
    /\ budget' = [budget EXCEPT !.writes = @ - 1]
    /\ UNCHANGED <<now, policiesFile, disk, clients, instance, once, exited, pc,
                   local, held, prev, hist, initRuns>>

(***************************************************************************)
(* Client life cycle.  NewClient is one step; GetClient and Close are run  *)
(* by goroutine g one access to the shared variables at a time.            *)
(***************************************************************************)
\* store.NewLevelStore(dir) succeeds: LevelDB locks the directory, a second
\* handle on a directory that is open cannot be had
NewLevelStoreOK(cs, dir) ==
    ~\E i \in 1..Len(cs) : cs[i].Store.dir = dir /\ cs[i].Store.open

\* &HTTPClient{cache: &Cache{Store: store, Policies: policies}, ...};
\* singleton (history) tells which constructor built it
HTTPClient(dir, policies, singleton) ==
    [Store |-> [dir |-> dir, open |-> TRUE, faults |-> {}], Policies |-> policies,
     singleton |-> singleton]

\* NewClient(cacheDir, policies)
CallNewClient(g, cacheDir, policies) ==
    LET dir == DataDir(cacheDir)
        err == IF cacheDir = "" THEN "cache directory is required"
               ELSE IF ~NewLevelStoreOK(clients, dir) THEN "failed to initialize cache"
               ELSE ErrNil
        c == IF err = ErrNil THEN Len(clients) + 1 ELSE NilClient
    IN  /\ ~exited
        /\ pc[g] = "idle"
        /\ Len(clients) < budget.clients
        /\ clients' = IF err = ErrNil
                      THEN Append(clients, HTTPClient(dir, policies, FALSE))
                      ELSE clients
        /\ last' = [NoLast EXCEPT !.op = "NewClient", !.client = c, !.err = err,
                                  !.prev = prev]
        /\ prev' = [op |-> "NewClient", client |-> c]
        /\ UNCHANGED <<now, policiesFile, fs, disk, instance, once, exited, pc,
                       local, held, hist, initRuns, budget>>

\* GetClient: once.Do(f), fast path: the guard is done already
GetClientEnter(g) ==
    /\ ~exited
    /\ pc[g] = "idle"
    /\ pc' = [pc EXCEPT ![g] = IF once.done THEN "check" ELSE "lock"]
    /\ local' = [local EXCEPT ![g] = NoLocal]
    /\ last' = NoLast
    /\ UNCHANGED <<now, policiesFile, fs, disk, clients, instance, once, exited,
                   held, prev, hist, initRuns, budget>>

\* once.Do, slow path: o.m.Lock()
OnceLock(g) ==
    /\ ~exited
    /\ pc[g] = "lock"
    /\ once.m = 0
    /\ once' = [once EXCEPT !.m = g]
    /\ pc' = [pc EXCEPT ![g] = "locked"]
    /\ UNCHANGED <<now, policiesFile, fs, disk, clients, instance, exited, local,
                   held, last, prev, hist, initRuns, budget>>

\* once.Do whose slow path runs f without looking at o.done again
OnceCheck_NoRecheck(g) ==
    /\ ~exited
    /\ pc[g] = "locked"
    /\ pc' = [pc EXCEPT ![g] = "load"]
    /\ UNCHANGED <<now, policiesFile, fs, disk, clients, instance, once, exited,
                   local, held, last, prev, hist, initRuns, budget>>

\* once.Do, slow path: if o.done == 0 { f() }
OnceCheck(g) ==
    /\ ~exited
    /\ pc[g] = "locked"
    /\ pc' = [pc EXCEPT ![g] = IF once.done THEN "unlock" ELSE "load"]
    /\ UNCHANGED <<now, policiesFile, fs, disk, clients, instance, once, exited,
                   local, held, last, prev, hist, initRuns, budget>>

\* f: policies, err := LoadPoliciesFromFile(*policiesFile); log.Fatalf on error
InitLoad(g) ==
    LET loaded == LoadPoliciesFromFile(policiesFile, fs)
    IN  /\ ~exited
        /\ pc[g] = "load"
        /\ initRuns' = initRuns + 1
        /\ exited' = (loaded.err # ErrNil)
        /\ local' = [local EXCEPT ![g] = [@ EXCEPT !.policies = loaded.policies,
                                                  !.ran = TRUE]]
        /\ pc' = [pc EXCEPT ![g] = IF loaded.err # ErrNil THEN "exited" ELSE "open"]
        /\ UNCHANGED <<now, policiesFile, fs, disk, clients, instance, once, held,
                       last, prev, hist, budget>>

\* f: store.NewLevelStore(*cacheDir + "/data"), log.Fatalf on error;
\* instance = &HTTPClient{...}
InitOpen(g) ==
    LET dir == DataDir(CacheDirFlag)
        ok == NewLevelStoreOK(clients, dir)
    IN  /\ ~exited
        /\ pc[g] = "open"
        /\ Len(clients) < budget.clients
        /\ exited' = ~ok
        /\ clients' = IF ok
                      THEN Append(clients, HTTPClient(dir, local[g].policies, TRUE))
                      ELSE clients
        /\ instance' = IF ok THEN Len(clients) + 1 ELSE instance
        /\ pc' = [pc EXCEPT ![g] = IF ok THEN "unlock" ELSE "exited"]
        /\ UNCHANGED <<now, policiesFile, fs, disk, once, local, held, last, prev,
                       hist, initRuns, budget>>

\* once.Do, deferred: o.done.Store(1) after f ran, then o.m.Unlock(); unlocking
\* a mutex that is not locked is a fatal error of the runtime
OnceUnlock(g) ==
    /\ ~exited
    /\ pc[g] = "unlock"
    /\ once' = [done |-> once.done \/ local[g].ran, m |-> 0]
    /\ exited' = (once.m = 0)
    /\ pc' = [pc EXCEPT ![g] = IF once.m = 0 THEN "exited" ELSE "check"]
    /\ UNCHANGED <<now, policiesFile, fs, disk, clients, instance, local, held,
                   last, prev, hist, initRuns, budget>>

\* if instance == nil { log.Fatal(...) }; return instance
GetClientReturn(g) ==
    /\ ~exited
    /\ pc[g] = "check"
    /\ exited' = (instance = NilClient)
    /\ pc' = [pc EXCEPT ![g] = IF instance = NilClient THEN "exited" ELSE "idle"]
    /\ held' = [held EXCEPT ![g] = instance]
    /\ last' = [NoLast EXCEPT !.op = "GetClient", !.client = instance,
                              !.err = IF instance = NilClient THEN "fatal" ELSE ErrNil,
                              !.ran = local[g].ran, !.prev = prev]
    /\ prev' = [op |-> "GetClient", client |-> instance]
    /\ UNCHANGED <<now, policiesFile, fs, disk, clients, instance, once, local,
                   hist, initRuns, budget>>

\* (*HTTPClient).Close on client c: hc.cache.Store.Close()
CloseStore(g, c) ==
    /\ ~exited
    /\ pc[g] = "idle"
    /\ budget.closes > 0
    /\ clients' = [clients EXCEPT ![c].Store.open = FALSE]
    /\ local' = [local EXCEPT ![g] = [NoLocal EXCEPT !.target = c]]
    /\ pc' = [pc EXCEPT ![g] = "close_instance"]
    /\ last' = NoLast
    /\ budget' = [budget EXCEPT !.closes = @ - 1]
    /\ UNCHANGED <<now, policiesFile, fs, disk, instance, once, exited, held, prev,
                   hist, initRuns>>

\* Close: instance = nil
CloseInstance(g) ==
    /\ ~exited
    /\ pc[g] = "close_instance"
    /\ instance' = NilClient
    /\ pc' = [pc EXCEPT ![g] = "close_once"]
    /\ UNCHANGED <<now, policiesFile, fs, disk, clients, once, exited, local, held,
                   last, prev, hist, initRuns, budget>>

\* Close that leaves the once-guard as it is
CloseOnce_KeepGuard(g) ==
    /\ ~exited
    /\ pc[g] = "close_once"
    /\ pc' = [pc EXCEPT ![g] = "idle"]
    /\ last' = [NoLast EXCEPT !.op = "Close", !.client = local[g].target,
                              !.prev = prev]
    /\ prev' = [op |-> "Close", client |-> local[g].target]
    /\ UNCHANGED <<now, policiesFile, fs, disk, clients, instance, once, exited,
                   local, held, hist, initRuns, budget>>

\* Close: once = sync.Once{}
CloseOnce(g) ==
    /\ ~exited
    /\ pc[g] = "close_once"
    /\ once' = [done |-> FALSE, m |-> 0]
    /\ pc' = [pc EXCEPT ![g] = "idle"]
    /\ last' = [NoLast EXCEPT !.op = "Close", !.client = local[g].target,
                              !.prev = prev]
    /\ prev' = [op |-> "Close", client |-> local[g].target]
    /\ UNCHANGED <<now, policiesFile, fs, disk, clients, instance, exited, local,
                   held, hist, initRuns, budget>>

(***************************************************************************)
(* Spec: one goroutine uses clients built by NewClient.                    *)
(***************************************************************************)
Init ==
    /\ InitCommon
    /\ policiesFile = PoliciesFileName
    /\ disk = [d \in Dirs |-> [EmptyStore EXCEPT ![hashKey(UrlOther)] = PriorValue]]
    /\ budget = [ticks |-> MaxTicks, ops |-> MaxOps, writes |-> 0,
                 closes |-> MaxClients, clients |-> MaxClients]

Next ==
    \/ \E d \in Deltas : Tick(d)
    \/ \E policies \in PolicyArgs : CallNewClient(1, CacheDirFlag, policies)
    \/ \E c \in 1..Len(clients) : CloseStore(1, c)
    \/ CloseInstance(1)
    \/ CloseOnce(1)
    \/ \E c \in OpenClients, url \in OpURLs : CallGet(c, url)
    \/ \E c \in OpenClients, url \in OpURLs : CallGetWithFinalURL(c, url)
    \/ \E c \in OpenClients, url \in OpURLs, v \in Validators \ {NilValidator} :
          CallGetWithValidator(c, url, v)
    \/ \E c \in OpenClients, url \in OpURLs, v \in Validators : CallFetch(c, url, v)
    \/ \E c \in OpenClients, url \in OpURLs : CallFetchWithFinalURL(c, url)
    \/ \E c \in OpenClients, url \in OpURLs : CallDeleteURL(c, url)

Spec == Init /\ [][Next]_vars

(***************************************************************************)
(* SpecSingleton: one goroutine uses the singleton and NewClient.          *)
(* SpecConcurrent: the goroutines do so concurrently.                      *)
(***************************************************************************)
InitSingleton ==
    /\ InitCommon
    /\ disk = [d \in Dirs |-> EmptyStore]
    /\ policiesFile \in PoliciesFileFlags
    /\ budget = [ticks |-> 0, ops |-> 0, writes |-> MaxWrites,
                 closes |-> MaxCloses, clients |-> MaxInstances]

LifeStep(g) ==
    \/ \E cacheDir \in {""} \cup CacheDirs, policies \in {NoCatchAll} :
          CallNewClient(g, cacheDir, policies)
    \/ GetClientEnter(g)
    \/ OnceLock(g)
    \/ OnceCheck(g)
    \/ InitLoad(g)
    \/ InitOpen(g)
    \/ OnceUnlock(g)
    \/ GetClientReturn(g)
    \/ \E c \in 1..Len(clients) : CloseStore(g, c)
    \/ CloseInstance(g)
    \/ CloseOnce(g)

NextSingleton ==
    \/ \E content \in FileContents : WritePoliciesFile(content)
    \/ LifeStep(1)

SpecSingleton == InitSingleton /\ [][NextSingleton]_vars

NextConcurrent ==
    \/ \E content \in FileContents : WritePoliciesFile(content)
    \/ \E g \in Goroutines : LifeStep(g)

SpecConcurrent == InitSingleton /\ [][NextConcurrent]_vars

(***************************************************************************)
(* SpecPolicy: one goroutine uses the singleton, closes it, edits the      *)
(* policies file and gets the singleton again, over a store that holds     *)
(* entries of an earlier run.                                              *)
(***************************************************************************)
InitPolicy ==
    /\ InitCommon
    /\ policiesFile = PoliciesFileName
    /\ disk = [d \in Dirs |->
                 [EmptyStore EXCEPT ![hashKey(UrlOther)] = PriorValue,
                                    ![hashKey(UrlTest)] = ShortLivedValue]]
    /\ budget = [ticks |-> MaxTicks, ops |-> MaxOps, writes |-> MaxWrites,
                 closes |-> MaxClients, clients |-> MaxInstances]

NextPolicy ==
    \/ \E d \in Deltas : Tick(d)
    \/ \E content \in {NoFile, ExpirationFile} : WritePoliciesFile(content)
    \/ GetClientEnter(1)
    \/ OnceLock(1)
    \/ OnceCheck(1)
    \/ InitLoad(1)
    \/ InitOpen(1)
    \/ OnceUnlock(1)
    \/ GetClientReturn(1)
    \/ \E c \in OpenClients : CloseStore(1, c)
    \/ CloseInstance(1)
    \/ CloseOnce(1)
    \/ \E c \in OpenClients, url \in OpURLs : CallGet(c, url)
    \/ \E c \in OpenClients, url \in OpURLs, v \in Validators \ {NilValidator} :
          CallGetWithValidator(c, url, v)

SpecPolicy == InitPolicy /\ [][NextPolicy]_vars

(***************************************************************************)
(* SpecLoad: one goroutine edits the policies file and gets and closes the *)
(* singleton; every first GetClient after a Close loads the file.          *)
(***************************************************************************)
InitLoader ==
    /\ InitCommon
    /\ disk = [d \in Dirs |-> EmptyStore]
    /\ policiesFile \in PoliciesFileFlags
    /\ budget = [ticks |-> 0, ops |-> 0, writes |-> MaxWrites,
                 closes |-> MaxCloses, clients |-> MaxInstances]

NextLoad ==
    \/ \E content \in LoadFiles : WritePoliciesFile(content)
    \/ GetClientEnter(1)
    \/ OnceLock(1)
    \/ OnceCheck(1)
    \/ InitLoad(1)
    \/ InitOpen(1)
    \/ OnceUnlock(1)
    \/ GetClientReturn(1)
    \/ \E c \in 1..Len(clients) : CloseStore(1, c)
    \/ CloseInstance(1)
    \/ CloseOnce(1)

SpecLoad == InitLoader /\ [][NextLoad]_vars

(***************************************************************************)
(* SpecRace: two goroutines call GetWithValidator on one client, one call  *)
(* of the store or of the transport at a time.  local[g] is the frame of   *)
(* g's call: its arguments, key, ttl, what Cache.Get found, the response,  *)
(* and what it returned; wrote (the value its Cache.Set put), latest (no   *)
(* put on its key happened after its own) and overtaken (a DeleteURL of    *)
(* its URL ran between its fetch and its put) are history.                 *)
(***************************************************************************)
NoReturn == [data |-> NilBytes, finalURL |-> <<>>, err |-> "running"]

Frame(c, url, validator) ==
    [policies |-> <<>>, target |-> c, ran |-> FALSE,
     url |-> url, validator |-> validator, key |-> hashKey(url),
     ttl |-> GetTTL(clients[c].Policies, url),
     found |-> FALSE, sent |-> FALSE, body |-> NilBytes, finalURL |-> <<>>,
     err |-> ErrNil, wrote |-> NoValue, latest |-> FALSE, overtaken |-> FALSE,
     ret |-> NoReturn]

\* the transport answers while the call waits; time passes by Tick
RaceOutcomes(url) == {net \in NetOutcomes(url) : net.lat = 0}

FrameDir(g) == clients[local[g].target].Store.dir

RaceFrame == <<policiesFile, fs, clients, instance, once, exited, held, prev,
               hist, initRuns>>

\* key := hashKey(url); ttl := hc.cache.GetTTL(url)
GetStart(g, c, url, validator) ==
    /\ ~exited
    /\ pc[g] = "idle"
    /\ budget.ops > 0
    /\ local' = [local EXCEPT ![g] = Frame(c, url, validator)]
    /\ pc' = [pc EXCEPT ![g] = IF UseCache(GetTTL(clients[c].Policies, url))
                               THEN "get_lookup" ELSE "get_fetch"]
    /\ budget' = [budget EXCEPT !.ops = @ - 1]
    /\ last' = NoLast
    /\ UNCHANGED <<now, disk>>
    /\ UNCHANGED RaceFrame

\* hc.cache.Get(key) up to its c.Store.Get and the test of isExpired, then
\* validator(value) on a found entry
GetLookup(g) ==
    LET f == local[g]
        c == clients[f.target]
        look == CacheGet(c.Store, c.Policies, disk[c.Store.dir], f.key, now)
        expired == Has(look.calls, "Store.Delete")
        hit == look.found /\ (f.validator.isNil \/ Validate(f.validator, look.data))
    IN  /\ ~exited
        /\ pc[g] = "get_lookup"
        /\ local' = [local EXCEPT ![g] =
                        [f EXCEPT !.found = look.found \/ expired,
                                  !.body = IF hit THEN look.data ELSE NilBytes,
                                  !.finalURL = IF hit THEN look.finalURL ELSE <<>>]]
        /\ pc' = [pc EXCEPT ![g] = IF expired THEN "get_expire"
                                   ELSE IF hit THEN "get_return"
                                   ELSE IF look.found THEN "get_delete"
                                   ELSE "get_fetch"]
        /\ UNCHANGED <<now, disk, last, budget>>
        /\ UNCHANGED RaceFrame

\* Cache.Get: c.Store.Delete(key) of the entry it found expired
GetExpire(g) ==
    LET f == local[g]
        c == clients[f.target]
    IN  /\ ~exited
        /\ pc[g] = "get_expire"
        /\ disk' = [disk EXCEPT ![c.Store.dir] = StoreDelete(c.Store, @, f.key).kv]
        /\ pc' = [pc EXCEPT ![g] = "get_fetch"]
        /\ UNCHANGED <<now, local, last, budget>>
        /\ UNCHANGED RaceFrame

\* _ = hc.cache.Delete(key) of the entry the validator rejected
GetDelete(g) ==
    LET f == local[g]
        c == clients[f.target]
    IN  /\ ~exited
        /\ pc[g] = "get_delete"
        /\ disk' = [disk EXCEPT ![c.Store.dir] = CacheDelete(c.Store, @, f.key).kv]
        /\ pc' = [pc EXCEPT ![g] = "get_fetch"]
        /\ UNCHANGED <<now, local, last, budget>>
        /\ UNCHANGED RaceFrame

\* http.NewRequest, hc.client.Do, io.ReadAll, shouldCache
GetFetch(g) ==
    /\ ~exited
    /\ pc[g] = "get_fetch"
    /\ \E net \in RaceOutcomes(local[g].url) :
        LET f == local[g]
            resp == DoRequest(f.url, net)
            store == resp.err = ErrNil /\ ShouldCache(f.validator, resp.body)
                        /\ f.ttl > 0
        IN  /\ local' = [local EXCEPT ![g] =
                            [f EXCEPT !.sent = Has(resp.calls, "Do"),
                                      !.body = resp.body,
                                      !.finalURL = resp.finalURL,
                                      !.err = resp.err]]
            /\ pc' = [pc EXCEPT ![g] = IF store THEN "get_put" ELSE "get_return"]
            /\ UNCHANGED <<now, disk, last, budget>>
            /\ UNCHANGED RaceFrame

\* hc.cache.Set(key, body, url, finalURL, ttl)
GetPut(g) ==
    LET f == local[g]
        c == clients[f.target]
        set == CacheSet(c.Store, disk[c.Store.dir], f.key, f.body, f.url,
                        f.finalURL, f.ttl, now)
    IN  /\ ~exited
        /\ pc[g] = "get_put"
        /\ disk' = [disk EXCEPT ![c.Store.dir] = set.kv]
        /\ local' = [h \in Goroutines |->
                        IF h = g
                        THEN [f EXCEPT !.wrote = ObjectToBytes(
                                           CacheEntry(f.body, f.url, f.finalURL,
                                                      now, now + f.ttl)),
                                       !.latest = TRUE]
                        ELSE IF local[h].target = f.target /\ "key" \in DOMAIN local[h]
                                /\ local[h].key = f.key
                        THEN [local[h] EXCEPT !.latest = FALSE]
                        ELSE local[h]]
        /\ pc' = [pc EXCEPT ![g] = "get_return"]
        /\ UNCHANGED <<now, last, budget>>
        /\ UNCHANGED RaceFrame

\* return value, finalURL, nil / return nil, finalURL, err / return body,
\* finalURL, nil
GetReturn(g) ==
    LET f == local[g]
        ret == [data |-> f.body, finalURL |-> f.finalURL, err |-> f.err]
    IN  /\ ~exited
        /\ pc[g] = "get_return"
        /\ local' = [local EXCEPT ![g] = [f EXCEPT !.ret = ret]]
        /\ pc' = [pc EXCEPT ![g] = "idle"]
        /\ last' = [NoLast EXCEPT !.op = "GetWithValidator", !.client = f.target,
                                  !.url = f.url, !.validator = f.validator,
                                  !.data = ret.data, !.finalURL = ret.finalURL,
                                  !.err = ret.err, !.ttl = f.ttl]
        /\ UNCHANGED <<now, disk, budget>>
        /\ UNCHANGED RaceFrame

InitRace ==
    /\ InitCommon
    /\ policiesFile = PoliciesFileName
    /\ disk = [d \in Dirs |->
                 [EmptyStore EXCEPT ![hashKey(UrlTest)] = ShortLivedValue]]
    /\ budget = [ticks |-> MaxTicks, ops |-> MaxOps, writes |-> 0,
                 closes |-> 0, clients |-> MaxClients]

NextRace ==
    \/ \E d \in Deltas : Tick(d)
    \/ CallNewClient(1, CacheDirFlag,
                     LoadPoliciesFromFile(PoliciesFileName, TestPolicyFile).policies)
    \/ \E g \in Goroutines, c \in OpenClients, url \in OpURLs, v \in Validators :
          GetStart(g, c, url, v)
    \/ \E g \in Goroutines : GetLookup(g)
    \/ \E g \in Goroutines : GetExpire(g)
    \/ \E g \in Goroutines : GetDelete(g)
    \/ \E g \in Goroutines : GetFetch(g)
    \/ \E g \in Goroutines : GetPut(g)
    \/ \E g \in Goroutines : GetReturn(g)

SpecRace == InitRace /\ [][NextRace]_vars

(***************************************************************************)
(* SpecInvalidate: SpecRace with DeleteURL, one call of Store.Delete, made *)
(* by a goroutine that is in no other call.                                *)
(***************************************************************************)
\* (*HTTPClient).DeleteURL by goroutine g
RaceDeleteURL(g, c, url) ==
    LET dir == clients[c].Store.dir
        r == DeleteURL(clients[c], url, disk[dir])
    IN  /\ ~exited
        /\ pc[g] = "idle"
        /\ budget.ops > 0
        /\ disk' = [disk EXCEPT ![dir] = r.kv]
        /\ local' = [h \in Goroutines |->
                        IF pc[h] = "get_put" /\ local[h].target = c
                           /\ local[h].key = hashKey(url)
                        THEN [local[h] EXCEPT !.overtaken = TRUE]
                        ELSE local[h]]
        /\ last' = [NoLast EXCEPT !.op = "DeleteURL", !.client = c, !.url = url,
                                  !.err = r.err, !.calls = r.calls]
        /\ budget' = [budget EXCEPT !.ops = @ - 1]
        /\ UNCHANGED <<now, pc>>
        /\ UNCHANGED RaceFrame

NextInvalidate ==
    \/ \E d \in Deltas : Tick(d)
    \/ CallNewClient(1, CacheDirFlag,
                     LoadPoliciesFromFile(PoliciesFileName, TestPolicyFile).policies)
    \/ \E g \in Goroutines, c \in OpenClients, url \in OpURLs, v \in Validators :
          GetStart(g, c, url, v)
    \/ \E g \in Goroutines : GetLookup(g)
    \/ \E g \in Goroutines : GetExpire(g)
    \/ \E g \in Goroutines : GetDelete(g)
    \/ \E g \in Goroutines : GetFetch(g)
    \/ \E g \in Goroutines : GetPut(g)
    \/ \E g \in Goroutines : GetReturn(g)
    \/ \E g \in Goroutines, c \in OpenClients, url \in OpURLs : RaceDeleteURL(g, c, url)

SpecInvalidate == InitRace /\ [][NextInvalidate]_vars

(***************************************************************************)
(* SpecFaults: one goroutine uses a client of NewClient whose store fails  *)
(* (a failing call of package store, or the handle closed by Close).       *)
(***************************************************************************)
\* the faults a store handle can have
FaultSets == {{f} : f \in Faults} \cup {Faults}

\* the store that NewClient just opened for client c is one on which the
\* calls in f fail
StoreFault(c, f) ==
    /\ ~exited /\ Quiet
    /\ last.op = "NewClient" /\ last.client = c
    /\ clients[c].Store.faults = {}
    /\ clients' = [clients EXCEPT ![c].Store.faults = f]
    /\ last' = NoLast
    /\ UNCHANGED <<now, policiesFile, fs, disk, instance, once, exited, pc, local,
                   held, prev, hist, initRuns, budget>>

\* the client built last, open or closed
LatestClient == {c \in 1..Len(clients) : c = Len(clients)}

InitFaults ==
    /\ InitCommon
    /\ policiesFile = PoliciesFileName
    /\ disk = [d \in Dirs |-> [EmptyStore EXCEPT ![hashKey(UrlOther)] = PriorValue]]
    /\ budget = [ticks |-> MaxTicks, ops |-> MaxOps, writes |-> 0,
                 closes |-> MaxClients, clients |-> MaxClients]

NextFaults ==
    \/ \E d \in Deltas : Tick(d)
    \/ CallNewClient(1, CacheDirFlag,
                     LoadPoliciesFromFile(PoliciesFileName, TestPolicyFile).policies)
    \/ \E c \in 1..Len(clients), f \in FaultSets : StoreFault(c, f)
    \/ \E c \in 1..Len(clients) : CloseStore(1, c)
    \/ CloseInstance(1)
    \/ CloseOnce(1)
    \/ \E c \in LatestClient, url \in OpURLs : CallGet(c, url)
    \/ \E c \in LatestClient, url \in OpURLs, v \in Validators \ {NilValidator} :
          CallGetWithValidator(c, url, v)

SpecFaults == InitFaults /\ [][NextFaults]_vars

(***************************************************************************)
(* SpecExpiry: one goroutine uses a client of NewClient, whose Store.Delete *)
(* may fail, over a store that holds a short-lived entry and an entry of   *)
(* the older revision.                                                     *)
(***************************************************************************)
InitExpiry ==
    /\ InitCommon
    /\ policiesFile = PoliciesFileName
    /\ disk = [d \in Dirs |->
                 [EmptyStore EXCEPT ![hashKey(UrlTest)] = ShortLivedValue,
                                    ![hashKey(UrlOther)] = LegacyValue]]
    /\ budget = [ticks |-> MaxTicks, ops |-> MaxOps, writes |-> 0,
                 closes |-> 0, clients |-> MaxClients]

NextExpiry ==
    \/ \E d \in Deltas : Tick(d)
    \/ CallNewClient(1, CacheDirFlag,
                     LoadPoliciesFromFile(PoliciesFileName, TestPolicyFile).policies)
    \/ \E c \in 1..Len(clients) : StoreFault(c, {"delete"})
    \/ \E c \in LatestClient, url \in OpURLs : CallGet(c, url)
    \/ \E c \in LatestClient, url \in OpURLs : CallGetWithFinalURL(c, url)
    \/ \E c \in LatestClient, url \in OpURLs, v \in Validators \ {NilValidator} :
          CallGetWithValidator(c, url, v)
    \/ \E c \in LatestClient, url \in OpURLs : CallDeleteURL(c, url)

SpecExpiry == InitExpiry /\ [][NextExpiry]_vars

(***************************************************************************)
(* Properties of the cache operations, checked under Spec.  They read the  *)
(* call that just returned (last), the value its key held before (before), *)
(* the last event on the key before (hbefore) and the store after.         *)
(***************************************************************************)
\* the value under the last call's key after the call
After == disk[clients[last.client].Store.dir][hashKey(last.url)]

\* the validator of the last call is nil or accepts data
Accepted(data) == last.validator.isNil \/ data \in last.validator.accepts

\* C1: a get of a URL with TTL > 0 whose entry was stored by an earlier
\* successful get under the same TTL, made while now - fetchedAt <= TTL with
\* a nil or accepting validator, returns the bytes that earlier get returned
\* and makes no network fetch.
C1_IdempotentHit ==
    ( /\ IsGet(last.op)
      /\ last.hbefore.kind = "stored"
      /\ Accepted(last.hbefore.data)
      /\ last.ttl > 0
      /\ last.before # NoValue
      /\ last.before.expires_at - last.before.crawled_at = last.ttl
      /\ last.t0 - last.before.crawled_at <= last.ttl )
    => /\ last.data = last.hbefore.data
       /\ last.err = ErrNil
       /\ Count(last.calls, "Do") = 0

\* a hit on an entry exactly TTL old
C1_Witness ==
    /\ IsGet(last.op)
    /\ last.hbefore.kind = "stored"
    /\ last.ttl > 0
    /\ last.before # NoValue
    /\ last.t0 - last.before.crawled_at = last.ttl
    /\ last.data = last.hbefore.data
    /\ Count(last.calls, "Do") = 0

\* C2: a get of a URL (TTL > 0) whose entry is more than TTL old makes exactly
\* one network fetch and never serves the old entry; when the fetch succeeds
\* it returns the fetched bytes and (the content being accepted) the store
\* then holds an entry with these bytes whose fetchedAt is the time of the
\* write; otherwise the old entry is gone.
C2_Expiry ==
    ( /\ IsGet(last.op)
      /\ last.ttl > 0
      /\ last.before # NoValue
      /\ last.before.crawled_at # ZeroTime
      /\ last.t0 - last.before.crawled_at > last.ttl )
    => /\ Count(last.calls, "Do") = 1
       /\ last.net.kind = "ok" => (last.data = last.net.body /\ last.err = ErrNil)
       /\ last.net.kind # "ok" => last.data = NilBytes
       /\ IF last.net.kind = "ok" /\ Accepted(last.net.body)
          THEN /\ After # NoValue
               /\ After.data = last.net.body
               /\ After.url = last.url
               /\ After.crawled_at = now
               /\ After.crawled_at = last.t0 + last.net.lat
          ELSE After = NoValue

\* an expired entry replaced by a later fetch with other bytes
C2_Witness ==
    /\ IsGet(last.op)
    /\ last.ttl > 0
    /\ last.before # NoValue
    /\ last.t0 - last.before.crawled_at > last.ttl
    /\ After # NoValue
    /\ After.data # last.before.data
    /\ After.crawled_at = now
    /\ After.crawled_at > last.before.crawled_at

\* C3: the first get of a URL after DeleteURL(url) returned makes a network
\* fetch.
C3_Invalidation ==
    (IsGet(last.op) /\ last.hbefore.kind = "deleted")
    => Count(last.calls, "Do") = 1

\* a get that fetches after DeleteURL removed an entry that was still fresh
C3_Witness ==
    /\ IsGet(last.op)
    /\ last.hbefore.kind = "deleted"
    /\ last.hbefore.data # NilBytes
    /\ last.ttl > 0
    /\ Count(last.calls, "Do") = 1

\* C4: when the network fetch of a get fails, the get returns that error
\* with nil data and writes no entry.
C4_TransportFailure ==
    (IsGet(last.op) /\ Has(last.calls, "Do") /\ last.net.kind # "ok")
    => /\ last.err = last.net.err
       /\ last.err # ErrNil
       /\ last.data = NilBytes
       /\ ~Has(last.calls, "Store.Put")
       /\ After \in {last.before, NoValue}

\* a body-read error on a URL that is cached (TTL > 0)
C4_Witness ==
    /\ IsGet(last.op)
    /\ last.ttl > 0
    /\ last.net.kind = "read_err"
    /\ Has(last.calls, "Do")
    /\ last.err = last.net.err

\* C5: when the validator rejects the freshly fetched bytes, GetWithValidator
\* returns them with the final URL and a nil error and writes nothing; the
\* client's next get of the URL fetches again.
C5_RejectedFresh ==
    /\ ( /\ last.op = "GetWithValidator"
         /\ Has(last.calls, "Do")
         /\ last.net.kind = "ok"
         /\ ~Accepted(last.net.body) )
       => /\ last.data = last.net.body
          /\ last.finalURL = last.net.finalURL
          /\ last.err = ErrNil
          /\ ~Has(last.calls, "Store.Put")
          /\ After \in {last.before, NoValue}
    /\ ( /\ IsGet(last.op)
         /\ last.hbefore.kind = "rejected"
         /\ last.hbefore.by = last.client )
       => Count(last.calls, "Do") = 1

\* the get that follows a rejected fresh fetch, for a URL that is cached
C5_Witness ==
    /\ IsGet(last.op)
    /\ last.hbefore.kind = "rejected"
    /\ last.hbefore.by = last.client
    /\ last.ttl > 0
    /\ Count(last.calls, "Do") = 1

\* C6: when a fresh entry is stored and the validator rejects its bytes,
\* GetWithValidator deletes the entry, then fetches; what it returns comes
\* from the fetch, and the rejected entry is no longer stored.
C6_RejectedOnRead ==
    ( /\ last.op = "GetWithValidator"
      /\ last.ttl > 0
      /\ Fresh(last.client, last.before, last.t0)
      /\ ~Accepted(last.before.data) )
    => /\ Len(last.calls) >= 3
       /\ last.calls[1] = "Store.Get"
       /\ last.calls[2] = "Store.Delete"
       /\ last.calls[3] = "Do"
       /\ last.data = (IF last.net.kind = "ok" THEN last.net.body ELSE NilBytes)
       /\ After = NoValue \/ Accepted(After.data)

\* a rejected fresh entry, and the fetch brings the same bytes again
C6_Witness ==
    /\ last.op = "GetWithValidator"
    /\ last.ttl > 0
    /\ Fresh(last.client, last.before, last.t0)
    /\ ~Accepted(last.before.data)
    /\ last.net.kind = "ok"
    /\ last.net.body = last.before.data
    /\ After = NoValue

\* C13: a get of a URL whose TTL is zero or negative makes a network fetch
\* and no call of the store: no read, no write, no delete; the store holds
\* for the URL what it held before, whatever that is.
C13_Bypass ==
    (IsGet(last.op) /\ last.ttl <= 0)
    => /\ last.calls = <<"Do">>
       /\ After = last.before
       /\ last.net.kind = "ok" => (last.data = last.net.body /\ last.err = ErrNil)

\* a successful get under TTL <= 0 of a URL for which the store holds an entry
C13_Witness ==
    /\ IsGet(last.op)
    /\ last.ttl <= 0
    /\ last.before # NoValue
    /\ last.net.kind = "ok"
    /\ last.calls = <<"Do">>
    /\ After = last.before

\* C14: when GetWithFinalURL or GetWithValidator answers from the cache, the
\* final URL it returns is the one the transport reported on the fetch that
\* wrote the entry, whichever operation made that fetch.
C14_FinalURLOnHit ==
    ( /\ last.op \in {"GetWithFinalURL", "GetWithValidator"}
      /\ ~Has(last.calls, "Do")
      /\ last.hbefore.reported # NoReport )
    => last.finalURL = last.hbefore.reported

\* a step changes the value of a key only when it is a call on the URL of
\* that key, made by a client on the directory of that value
KeyFrame ==
    \A d \in Dirs, k \in Keys :
        disk'[d][k] # disk[d][k] =>
            /\ last'.client # NilClient
            /\ k = hashKey(last'.url)
            /\ d = clients'[last'.client].Store.dir

\* a get answered from the cache returns the entry written for its own URL
OwnEntry ==
    (IsGet(last.op) /\ ~Has(last.calls, "Do"))
    => /\ last.before # NoValue
       /\ last.before.url = last.url
       /\ last.data = last.before.data

\* C15: the key is derived from the requested URL only: a get, a write or a
\* DeleteURL of one URL never creates, changes or removes the entry of
\* another URL, also when the fetches of both end at the same final URL, and
\* a get is never answered from the entry of another URL.
C15_KeyPerURL == [][KeyFrame]_vars /\ []OwnEntry

\* a call has written the entry of one URL next to the untouched entry of
\* another URL with the same final URL
C15_Witness ==
    /\ Has(last.calls, "Store.Put")
    /\ last.url = UrlTest
    /\ After # NoValue
    /\ After.final_url = RedirectURL
    /\ disk[clients[last.client].Store.dir][hashKey(UrlOther)] = PriorValue
    /\ PriorValue.final_url = After.final_url

(***************************************************************************)
(* Properties of TTL resolution and of the client life cycle, checked      *)
(* under SpecSingleton and SpecConcurrent.                                 *)
(***************************************************************************)
\* the policies of list policies whose pattern matches url
Matching(policies, url) ==
    {i \in 1..Len(policies) : MatchString(policies[i].Pattern, url)}

\* the statement of C7 as the specification has it: for every client and every
\* URL, GetTTL returns the TTL of a policy of the client's list, whose last
\* policy is the catch-all
C7_EveryClientResolves ==
    \A c \in 1..Len(clients), url \in URLs :
        LET policies == clients[c].Policies
        IN  /\ policies # <<>>
            /\ policies[Len(policies)] = defaultPolicy
            /\ \E i \in Matching(policies, url) :
                  GetTTL(policies, url) = policies[i].TTL

\* C7: the list of the singleton comes from LoadPoliciesFromFile and ends with
\* the catch-all, so GetTTL returns the TTL of one of its policies for every
\* URL; a client built by NewClient has the caller's list as it was given,
\* and GetTTL returns 0 for a URL that none of its policies matches.
C7_TTLResolution ==
    \A c \in 1..Len(clients), url \in URLs :
        LET policies == clients[c].Policies
        IN  /\ clients[c].singleton =>
                  /\ policies # <<>>
                  /\ policies[Len(policies)] = defaultPolicy
                  /\ Matching(policies, url) # {}
            /\ ~clients[c].singleton => policies \in PolicyArgs
            /\ Matching(policies, url) # {} =>
                  \E i \in Matching(policies, url) :
                      GetTTL(policies, url) = policies[i].TTL
            /\ Matching(policies, url) = {} => GetTTL(policies, url) = 0

\* a singleton whose list was read from a file, next to a client of NewClient
\* with a URL that none of its policies matches
C7_Witness ==
    \E c, d \in 1..Len(clients) :
        /\ clients[c].singleton
        /\ Len(clients[c].Policies) > 1
        /\ ~clients[d].singleton
        /\ Matching(clients[d].Policies, UrlOther) = {}
        /\ GetTTL(clients[d].Policies, UrlOther) = 0

\* C8: GetTTL returns the TTL of the lowest-index policy whose pattern matches
\* the URL, for every client's list and every URL; with the list of
\* TestCachePolicy (5m for example.com, 1s for test.com, then the catch-all)
\* the three URLs of the test resolve to 5m, 1s and 10m.
C8_FirstMatchWins ==
    /\ \A c \in 1..Len(clients), url \in URLs :
          LET policies == clients[c].Policies
          IN  \A i \in Matching(policies, url) :
                  (\A j \in Matching(policies, url) : i <= j)
                      => GetTTL(policies, url) = policies[i].TTL
    /\ LET policies == LoadPoliciesFromFile(PoliciesFileName, TestPolicyFile).policies
       IN  /\ GetTTL(policies, UrlExample) = 300
           /\ GetTTL(policies, UrlTest) = 1
           /\ GetTTL(policies, UrlOther) = DefaultTTL

\* a client whose list has two policies with different TTLs that match one
\* URL, the earlier one an explicit policy
C8_Witness ==
    \E c \in 1..Len(clients), url \in URLs :
        LET policies == clients[c].Policies
        IN  \E i, j \in Matching(policies, url) :
                /\ i < j
                /\ policies[i].TTL # policies[j].TTL
                /\ GetTTL(policies, url) = policies[i].TTL

\* C9: as long as no Close has been called, the function given to once.Do has
\* run at most once however the goroutines' calls of GetClient interleave, and
\* every call that returned has returned the one instance, built completely
\* by that single run (open store, the loaded policies).
C9_InitOnce ==
    budget.closes = MaxCloses =>
        /\ initRuns <= 1
        /\ \A g \in Goroutines :
              held[g] # NilClient =>
                  /\ initRuns = 1
                  /\ held[g] = instance
                  /\ clients[held[g]].singleton
                  /\ clients[held[g]].Store.open
                  /\ clients[held[g]].Policies # <<>>
                  /\ \A h \in Goroutines :
                        held[h] # NilClient => held[h] = held[g]

\* both goroutines found the guard not done and took the slow path of once.Do;
\* one ran the initialisation and has returned, the other found it done
C9_Witness ==
    /\ budget.closes = MaxCloses
    /\ \E g, h \in Goroutines :
          /\ g # h
          /\ held[g] # NilClient
          /\ local[g].ran
          /\ pc[h] = "unlock"
          /\ ~local[h].ran

\* C10: when Close has returned, the store handle of the client is closed,
\* instance is nil and the once-guard is reset; the GetClient that follows
\* runs the initialisation again and, unless that ends the process, returns a
\* new client with an open store handle and the policies that the policies
\* file gives at that moment.
C10_CloseResets ==
    /\ last.op = "Close" =>
          /\ ~clients[last.client].Store.open
          /\ instance = NilClient
          /\ ~once.done
    /\ (Quiet /\ instance = NilClient) => ~once.done
    /\ (last.op = "GetClient" /\ last.prev.op = "Close") => last.ran
    /\ (last.op = "GetClient" /\ last.ran /\ last.err = ErrNil) =>
          /\ last.client = Len(clients)
          /\ clients[last.client].singleton
          /\ clients[last.client].Store.open
          /\ clients[last.client].Policies
                = LoadPoliciesFromFile(policiesFile, fs).policies

\* the singleton was closed, the policies file changed, and GetClient has
\* returned a new client with other policies than the closed one had
C10_Witness ==
    /\ last.op = "GetClient"
    /\ last.err = ErrNil
    /\ last.prev.op = "Close"
    /\ last.prev.client # NilClient
    /\ clients[last.prev.client].singleton
    /\ ~clients[last.prev.client].Store.open
    /\ last.client # last.prev.client
    /\ clients[last.client].Policies # clients[last.prev.client].Policies

\* C11: closing a client that NewClient built leaves the singleton state
\* alone: a singleton whose store is open (GetClient built it and nobody
\* closed it) is still what instance points to and the once-guard is still
\* done, so GetClient returns it without running the initialisation again.
C11_IndependentClose ==
    /\ (last.op = "Close" /\ ~clients[last.client].singleton) =>
          \A c \in 1..Len(clients) :
              (clients[c].singleton /\ clients[c].Store.open) =>
                  (instance = c /\ once.done)
    /\ ( /\ last.op = "GetClient"
         /\ last.prev.op = "Close"
         /\ ~clients[last.prev.client].singleton
         /\ \E c \in 1..Len(clients) :
               c # last.client /\ clients[c].singleton /\ clients[c].Store.open )
       => ~last.ran

(***************************************************************************)
(* Properties of a client whose store fails, checked under SpecFaults.     *)
(***************************************************************************)
\* the store handle of the last call's client
LastStore == clients[last.client].Store

\* C12: whatever call of the store fails, and also on a closed store, a get
\* returns an error only when its network fetch failed, and then that error;
\* a failing read (Store.Get, BytesToObject, closed store) is a miss and the
\* get fetches; a get whose fetch succeeds returns the fetched bytes and the
\* final URL with a nil error also when the write fails.
C12_FaultsNotSurfaced ==
    IsGet(last.op) =>
        /\ last.err # ErrNil =>
              /\ Has(last.calls, "Do")
              /\ last.net.kind # "ok"
              /\ last.err = last.net.err
        /\ (last.ttl > 0 /\ ( \/ ~LastStore.open
                              \/ "get" \in LastStore.faults
                              \/ "decode" \in LastStore.faults ))
              => Count(last.calls, "Do") = 1
        /\ (Has(last.calls, "Do") /\ last.net.kind = "ok") =>
              /\ last.data = last.net.body
              /\ last.err = ErrNil
              /\ last.op = "GetWithValidator" => last.finalURL = last.net.finalURL

\* a get that finds BytesToObject failing on a fresh entry and fetches, and
\* whose write fails too
C12_Witness ==
    /\ IsGet(last.op)
    /\ last.ttl > 0
    /\ LastStore.open
    /\ LastStore.faults = Faults
    /\ Fresh(last.client, last.before, last.t0)
    /\ Count(last.calls, "Do") = 1
    /\ last.net.kind = "ok"
    /\ last.data = last.net.body
    /\ last.err = ErrNil
    /\ After = last.before

(***************************************************************************)
(* Property of freshness under a changed policy list, checked under        *)
(* SpecPolicy.                                                             *)
(***************************************************************************)
\* C16: a get (TTL > 0, validator nil or accepting) of a URL whose stored entry
\* carries CrawledAt fetches exactly when now - CrawledAt is more than the TTL
\* that the client's policy list gives the URL now, whatever ExpiresAt the
\* entry holds.
C16_ReadTimePolicy ==
    ( /\ IsGet(last.op)
      /\ last.ttl > 0
      /\ last.before # NoValue
      /\ last.before.crawled_at # ZeroTime
      /\ Accepted(last.before.data) )
    => ( Has(last.calls, "Do") <=> last.t0 - last.before.crawled_at > last.ttl )

\* a get answered from an entry whose stored ExpiresAt has passed, by a client
\* that loaded its policies after the policies file was edited
C16_Witness ==
    /\ IsGet(last.op)
    /\ last.ttl > 0
    /\ last.before # NoValue
    /\ last.before.expires_at < last.t0
    /\ ~Has(last.calls, "Do")
    /\ last.data = last.before.data
    /\ Len(clients) > 1

(***************************************************************************)
(* Properties of LoadPoliciesFromFile, checked under SpecLoad on the load  *)
(* that GetClient runs.                                                    *)
(***************************************************************************)
\* goroutine g has run LoadPoliciesFromFile inside GetClient and has not left
\* GetClient's initialisation: local[g].policies is what the load returned for
\* the file as it is
Loaded(g) == local[g].ran /\ pc[g] \in {"open", "exited"}

\* the lines of the file read
FileLines == IF policiesFile # "" /\ fs.exists THEN fs.lines ELSE <<>>

\* the scanner skips the line (blank or comment)
Skipped(text) ==
    LET line0 == TrimSpace(text) IN line0 = <<>> \/ Head(line0) = "#"

\* the duration string of a policy line
LineDuration(text) ==
    LET line0 == TrimSpace(text)
        hash == Index(line0, "#")
        line == IF hash # 0 THEN TrimSpace(Take(line0, hash - 1)) ELSE line0
    IN  TrimSpace(Drop(line, LastIndex(line, "=")))

\* the README's table of supported time units, in seconds
ReadmeUnitSeconds ==
    [t \in {"s", "m", "h", "d"} |->
        CASE t = "s" -> 1 [] t = "m" -> 60 [] t = "h" -> 3600 [] OTHER -> 86400]

\* a duration written in the README's units: (number unit)+
RECURSIVE ReadmeDuration(_)
ReadmeDuration(s) ==
    IF s = <<>> THEN [ok |-> TRUE, val |-> 0]
    ELSE IF Len(s) < 2 \/ s[1] \notin DOMAIN NumVal \/ s[2] \notin DOMAIN ReadmeUnitSeconds
         THEN [ok |-> FALSE, val |-> 0]
         ELSE LET rest == ReadmeDuration(Drop(s, 2))
              IN  [ok |-> rest.ok,
                   val |-> NumVal[s[1]] * ReadmeUnitSeconds[s[2]] + rest.val]

\* every policy line is well formed but for the unit of its duration, and its
\* duration is written in the README's units
ReadmeLines(lines) ==
    \A i \in 1..Len(lines) :
        \/ Skipped(lines[i])
        \/ /\ ParsePolicyLine(lines[i]).err \in {ErrNil, "invalid duration"}
           /\ LineDuration(lines[i]) # <<>>
           /\ ReadmeDuration(LineDuration(lines[i])).ok

\* the TTLs the README gives the policy lines, in source order
RECURSIVE ReadmeTTLs(_)
ReadmeTTLs(lines) ==
    IF lines = <<>> THEN <<>>
    ELSE IF Skipped(Head(lines)) THEN ReadmeTTLs(Tail(lines))
    ELSE <<ReadmeDuration(LineDuration(Head(lines))).val>> \o ReadmeTTLs(Tail(lines))

\* C17: a policies file whose durations use the units s, m, h or d, alone or
\* compound, loads, and each line gets the TTL its duration spells (d = 24h).
C17_DurationUnits ==
    \A g \in Goroutines :
        (Loaded(g) /\ FileLines # <<>> /\ ReadmeLines(FileLines))
        => /\ Len(local[g].policies) = Len(ReadmeTTLs(FileLines)) + 1
           /\ \A k \in 1..Len(ReadmeTTLs(FileLines)) :
                 local[g].policies[k].TTL = ReadmeTTLs(FileLines)[k]

\* the policy lines of a file, in source order
RECURSIVE PolicyLines(_)
PolicyLines(lines) ==
    IF lines = <<>> THEN <<>>
    ELSE IF Skipped(Head(lines)) THEN PolicyLines(Tail(lines))
    ELSE <<Head(lines)>> \o PolicyLines(Tail(lines))

\* C18: when a line of the policies file that is not blank or a comment has no
\* "=", a pattern that does not compile or a duration that does not parse, the
\* load returns an error and no policies, and GetClient ends the process.
C18_AllOrNothing ==
    \A g \in Goroutines :
        ( /\ Loaded(g)
          /\ \E i \in 1..Len(FileLines) : ParsePolicyLine(FileLines[i]).err # ErrNil )
        => /\ local[g].policies = <<>>
           /\ exited
           /\ instance = NilClient

\* a load of a file whose second line is bad: the policy of the first line is
\* not returned
C18_Witness ==
    /\ Loaded(1)
    /\ fs \in {BadFile, BadPatternFile, BadDurationFile}
    /\ policiesFile # ""
    /\ ParsePolicyLine(fs.lines[1]).add # <<>>
    /\ local[1].policies = <<>>
    /\ exited

\* C19: a load that succeeds returns one policy per policy line, in source
\* order, then the catch-all (".*", 10 minutes) as its one last element; with no
\* file name or no file it returns the catch-all alone and succeeds.
C19_LoadedShape ==
    \A g \in Goroutines :
        Loaded(g)
        => LET policies == local[g].policies
               explicit == PolicyLines(FileLines)
           IN  /\ (policiesFile = "" \/ ~fs.exists)
                     => policies = <<CachePolicy(<<".*">>, 600)>>
               /\ policies # <<>>
                     => /\ Len(policies) = Len(explicit) + 1
                        /\ policies[Len(policies)] = CachePolicy(<<".*">>, 600)
                        /\ \A k \in 1..Len(explicit) :
                              <<policies[k]>> = ParsePolicyLine(explicit[k]).add

\* a load of the file of TestCachePolicy: two explicit policies, then the
\* catch-all
C19_Witness ==
    /\ Loaded(1)
    /\ policiesFile # ""
    /\ fs = TestPolicyFile
    /\ Len(local[1].policies) = 3
    /\ local[1].policies[1].TTL = 300
    /\ local[1].policies[2].TTL = 1
    /\ local[1].policies[3] = defaultPolicy

(***************************************************************************)
(* Property of two concurrent gets, checked under SpecRace.                *)
(***************************************************************************)
\* g's call has returned after it found nothing stored, fetched and put
MissedFetchedPut(g) ==
    /\ pc[g] = "idle"
    /\ "ret" \in DOMAIN local[g]
    /\ local[g].ret # NoReturn
    /\ local[g].ttl > 0
    /\ ~local[g].found
    /\ local[g].sent
    /\ local[g].wrote # NoValue

\* both goroutines made such a call on the same client and URL
RacePair ==
    /\ \A g \in Goroutines : MissedFetchedPut(g)
    /\ local[1].target = local[2].target
    /\ local[1].url = local[2].url

\* C20: when two gets of one URL with TTL > 0 both find nothing stored, both
\* fetch and both put, each returns the bytes of its own fetch with a nil
\* error, and once both have returned the store holds for the URL the entry
\* of the put that happened last.
C20_DuplicateFetch ==
    RacePair
    => /\ \A g \in Goroutines :
             /\ local[g].ret.err = ErrNil
             /\ local[g].ret.data = local[g].body
             /\ BytesToObject(local[g].wrote).Data = local[g].body
       /\ Cardinality({g \in Goroutines : local[g].latest}) = 1
       /\ \A g \in Goroutines :
             local[g].latest => disk[FrameDir(g)][local[g].key] = local[g].wrote

\* the two calls fetched different bodies; the entry of the first put is gone
C20_Witness ==
    /\ RacePair
    /\ local[1].ret.data # local[2].ret.data
    /\ local[1].ret.err = ErrNil /\ local[2].ret.err = ErrNil
    /\ \E g \in Goroutines :
          /\ local[g].latest
          /\ disk[FrameDir(g)][local[g].key] = local[g].wrote
          /\ \A h \in Goroutines \ {g} :
                disk[FrameDir(g)][local[g].key] # local[h].wrote

(***************************************************************************)
(* Properties of expiry on read, checked under SpecExpiry.                 *)
(***************************************************************************)
\* client c's Cache.Get finds the stored value v expired at time t
Expired(c, v, t) ==
    IF BytesToObject(v).CrawledAt # ZeroTime
    THEN t - BytesToObject(v).CrawledAt > GetTTL(clients[c].Policies, BytesToObject(v).URL)
    ELSE t > BytesToObject(v).ExpiresAt

\* the last call was a get that read a stored entry
ReadEntry ==
    /\ IsGet(last.op)
    /\ last.ttl > 0
    /\ LastStore.open
    /\ last.before # NoValue

\* a get that finds its entry expired calls Store.Delete right after Store.Get
\* and fetches; it returns the fetched bytes, or nil with the error of the fetch
ExpiredRead ==
    (ReadEntry /\ Expired(last.client, last.before, last.t0))
    => /\ Len(last.calls) >= 3
       /\ last.calls[1] = "Store.Get"
       /\ last.calls[2] = "Store.Delete"
       /\ last.calls[3] = "Do"
       /\ Count(last.calls, "Do") = 1
       /\ last.net.kind = "ok" => (last.data = last.net.body /\ last.err = ErrNil)
       /\ last.net.kind # "ok" => (last.data = NilBytes /\ last.err = last.net.err)
       /\ ("delete" \notin LastStore.faults /\ ~Has(last.calls, "Store.Put"))
             => After = NoValue

\* a step that removes an entry is a call on the entry's URL that deletes: a
\* get that found it expired or rejected by the validator, or DeleteURL
RemovedByCall ==
    \A d \in Dirs, k \in Keys :
        (disk[d][k] # NoValue /\ disk'[d][k] = NoValue)
        => /\ last'.client # NilClient
           /\ clients[last'.client].Store.dir = d
           /\ hashKey(last'.url) = k
           /\ Has(last'.calls, "Store.Delete")
           /\ \/ last'.op = "DeleteURL"
              \/ /\ IsGet(last'.op)
                 /\ \/ Expired(last'.client, disk[d][k], last'.t0)
                    \/ /\ ~last'.validator.isNil
                       /\ ~Validate(last'.validator, BytesToObject(disk[d][k]).Data)

\* C21: a get that finds its entry expired issues a delete of the key and goes
\* on as on a miss, also when the delete fails: the entry's bytes are not
\* returned, not even when the fetch fails; an entry leaves the store only in
\* such a read, in a read whose validator rejects it, or in DeleteURL.
C21_LazyExpiry == []ExpiredRead /\ [][RemovedByCall]_vars

\* a get finds its entry expired, Store.Delete fails and so does the fetch:
\* the call returns nil although the entry is still stored
C21_Witness ==
    /\ ReadEntry
    /\ Expired(last.client, last.before, last.t0)
    /\ "delete" \in LastStore.faults
    /\ last.calls = <<"Store.Get", "Store.Delete", "Do">>
    /\ last.net.kind # "ok"
    /\ last.data = NilBytes
    /\ After = last.before

\* C22: an entry without CrawledAt is expired exactly when now is after its
\* ExpiresAt, whatever TTL the policies give its URL; while it is not expired a
\* get (validator nil or accepting) returns its data, with an empty final URL,
\* and does not fetch.
C22_LegacyEntries ==
    (ReadEntry /\ BytesToObject(last.before).CrawledAt = ZeroTime)
    => /\ (last.t0 > last.before.expires_at)
             <=> (Len(last.calls) >= 2 /\ last.calls[2] = "Store.Delete"
                     /\ Has(last.calls, "Do"))
       /\ (last.t0 <= last.before.expires_at /\ Accepted(last.before.data))
             => /\ last.calls = <<"Store.Get">>
                /\ last.data = last.before.data
                /\ last.finalURL = <<>>
                /\ last.err = ErrNil
                /\ After = last.before

\* a get served from an entry of the older revision
C22_Witness ==
    /\ ReadEntry
    /\ last.op = "GetWithFinalURL"
    /\ "crawled_at" \notin DOMAIN last.before
    /\ last.t0 <= last.before.expires_at
    /\ last.calls = <<"Store.Get">>
    /\ last.data = last.before.data
    /\ last.finalURL = <<>>

(***************************************************************************)
(* Property of the sign of loaded TTLs, checked under SpecLoad.            *)
(***************************************************************************)
\* the duration of a policy line is written with a minus sign
Minus(text) == LineDuration(text) # <<>> /\ Head(LineDuration(text)) = "-"

\* C23 as stated: every policy of a loaded list, and every TTL that GetTTL
\* returns for the singleton, is >= 0.
C23_NonNegative ==
    /\ \A g \in Goroutines :
          Loaded(g) => \A k \in 1..Len(local[g].policies) : local[g].policies[k].TTL >= 0
    /\ \A c \in 1..Len(clients), url \in URLs :
          clients[c].singleton => GetTTL(clients[c].Policies, url) >= 0

\* C23: a loaded policy has the TTL that time.ParseDuration gives its duration,
\* sign included: the TTL is <= 0 for a duration written with a minus sign and
\* >= 0 for any other; the catch-all has 10 minutes; GetTTL returns for the
\* singleton the TTL of a policy of its list, which can be negative.
C23_SignedTTLs ==
    /\ \A g \in Goroutines :
          (Loaded(g) /\ local[g].policies # <<>>)
          => LET policies == local[g].policies
                 explicit == PolicyLines(FileLines)
             IN  /\ policies[Len(policies)].TTL = 600
                 /\ \A k \in 1..Len(explicit) :
                       IF Minus(explicit[k])
                       THEN policies[k].TTL <= 0
                       ELSE policies[k].TTL >= 0
    /\ \A c \in 1..Len(clients), url \in URLs :
          clients[c].singleton
          => \E k \in 1..Len(clients[c].Policies) :
                GetTTL(clients[c].Policies, url) = clients[c].Policies[k].TTL

\* the singleton built from a file with the line .*\.test\.com=-1s resolves a
\* negative TTL
C23_Witness ==
    \E c \in 1..Len(clients) :
        /\ clients[c].singleton
        /\ fs = NegativeFile
        /\ clients[c].Policies[1].TTL = 0 - 1
        /\ GetTTL(clients[c].Policies, UrlTest) < 0
        /\ GetTTL(clients[c].Policies, UrlOther) = 600

(***************************************************************************)
(* Property of what the store holds, checked under Spec.                   *)
(***************************************************************************)
\* every stored entry sits under the key of its own URL and carries CrawledAt
\* and ExpiresAt = CrawledAt + a positive TTL
StoreWellFormed ==
    \A d \in Dirs, k \in Keys :
        disk[d][k] # NoValue
        => /\ k = hashKey(disk[d][k].url)
           /\ disk[d][k].crawled_at # ZeroTime
           /\ disk[d][k].crawled_at <= now
           /\ disk[d][k].expires_at > disk[d][k].crawled_at

\* a step that writes an entry is a call that made Store.Put: the entry has the
\* call's requested URL and sits under its key, CrawledAt is the time of the
\* write, ExpiresAt is CrawledAt + the TTL the call resolved, that TTL is > 0
\* and the call's validator is nil or accepts the data
WrittenByCall ==
    \A d \in Dirs, k \in Keys :
        (disk'[d][k] # disk[d][k] /\ disk'[d][k] # NoValue)
        => /\ last'.client # NilClient
           /\ clients[last'.client].Store.dir = d
           /\ Has(last'.calls, "Store.Put")
           /\ last'.op \in {"Get", "GetWithFinalURL", "GetWithValidator", "Fetch",
                            "FetchWithFinalURL"}
           /\ k = hashKey(last'.url)
           /\ disk'[d][k].url = last'.url
           /\ disk'[d][k].data = last'.net.body
           /\ disk'[d][k].crawled_at = now'
           /\ disk'[d][k].crawled_at # ZeroTime
           /\ disk'[d][k].expires_at = disk'[d][k].crawled_at + last'.ttl
           /\ last'.ttl > 0
           /\ last'.ttl = GetTTL(clients[last'.client].Policies, last'.url)
           /\ \/ last'.validator.isNil
              \/ Validate(last'.validator, disk'[d][k].data)

\* C24: every entry written is stored under the key of its requested URL (not
\* of the final URL), has a non-zero CrawledAt equal to the time of the write
\* and ExpiresAt = CrawledAt + ttl, and was written by a call that resolved a
\* TTL > 0 and whose validator was nil or accepted the content.
C24_WellFormedStore == []StoreWellFormed /\ [][WrittenByCall]_vars

\* a redirected fetch that a validator accepted: the entry sits under the key
\* of the requested URL and names the other URL as its final URL
C24_Witness ==
    /\ last.op = "GetWithValidator"
    /\ ~last.validator.isNil
    /\ Has(last.calls, "Store.Put")
    /\ After # NoValue
    /\ After.url = last.url
    /\ After.final_url = RedirectURL
    /\ hashKey(After.final_url) # hashKey(last.url)
    /\ After.crawled_at = now
    /\ After.expires_at = now + last.ttl
    /\ last.ttl > 0

(***************************************************************************)
(* Property of GetClient next to a Close by another goroutine, checked     *)
(* under SpecConcurrent.                                                   *)
(***************************************************************************)
\* every client is the singleton of its time: NewClient was not used
OnlySingletons == \A c \in 1..Len(clients) : clients[c].singleton

\* every closed store handle is one that a goroutine got from GetClient
ClosedByHolder ==
    \A c \in 1..Len(clients) :
        ~clients[c].Store.open => \E g \in Goroutines : held[g] = c

\* C25: however GetClient and a Close of the singleton by another goroutine
\* interleave, a GetClient that comes to its test of instance finds it set, and
\* the client it returns has an open store handle.
C25_SafeAgainstClose ==
    (OnlySingletons /\ ClosedByHolder /\ last.op = "GetClient")
    => /\ last.err = ErrNil
       /\ last.client # NilClient
       /\ clients[last.client].Store.open

(***************************************************************************)
(* Property of DeleteURL next to a get in flight, checked under            *)
(* SpecInvalidate.                                                         *)
(***************************************************************************)
\* C26: the store does not hold an entry that a get wrote from a fetch made
\* before a DeleteURL of its URL ran.
C26_InvalidationHolds ==
    \A g \in Goroutines :
        ( /\ "overtaken" \in DOMAIN local[g]
          /\ local[g].overtaken
          /\ local[g].wrote # NoValue )
        => disk[FrameDir(g)][local[g].key] # local[g].wrote

====
